---- MODULE Spec2Model ----
(***************************************************************************)
(* State-machine model of the expo-moose PV monitoring app:                *)
(*   - DashboardScreen  (src/unnamed/part_000): paginated enriched list,   *)
(*     basic-directory cache, search/filter engine;                        *)
(*   - PvSystemDetailScreen (src/app/pv-detail/[pvSystemId].tsx): access   *)
(*     pre-check, fetchAllData batch, historical chart fetch.              *)
(* Strings the code inspects (names, ids, addresses, queries) are          *)
(* sequences of one-character strings, so that trim, toLowerCase and       *)
(* includes are computed and not assumed.  A React render closure is the   *)
(* record of state values an async function captured when it was created.  *)
(***************************************************************************)
EXTENDS Integers, Sequences, FiniteSets, TLC

\* A nullable JavaScript value is None or Some(v); Val reads a non-null one.
None == <<>>
Some(v) == <<v>>
Val(x) == x[1]

(***************************************************************************)
(* Bounds of the model.                                                    *)
(***************************************************************************)
RemoteCount == 21      \* systems the remote account holds
MaxEvents == 3         \* user events (typing, load-more, refresh) per run
MaxPageLoads == 2      \* page loads in flight at once
MaxSearches == 2       \* search resolutions in flight at once

(***************************************************************************)
(* Program constants.                                                      *)
(***************************************************************************)
SYSTEMS_PER_PAGE == 10
SearchCap == 20

(***************************************************************************)
(* JavaScript string primitives over character sequences.                  *)
(***************************************************************************)
IsSpace(c) == c = " "

\* String.prototype.toLowerCase, per character
LowerChar(c) ==
  CASE c = "B" -> "b"
    [] c = "S" -> "s"
    [] c = "U" -> "u"
    [] c = "O" -> "o"
    [] OTHER -> c

ToLowerCase(s) == [i \in 1..Len(s) |-> LowerChar(s[i])]

\* String.prototype.trim
Trim(s) ==
  LET idx == {i \in 1..Len(s) : ~IsSpace(s[i])}
  IN IF idx = {} THEN <<>>
     ELSE LET lo == CHOOSE i \in idx : \A j \in idx : i <= j
              hi == CHOOSE i \in idx : \A j \in idx : j <= i
          IN SubSeq(s, lo, hi)

\* String.prototype.includes
Includes(s, sub) ==
  \E k \in 0..(Len(s) - Len(sub)) : SubSeq(s, k + 1, k + Len(sub)) = sub

\* Array.prototype.filter(Boolean).join(", ")
RECURSIVE JoinParts(_)
JoinParts(parts) ==
  IF parts = <<>> THEN <<>>
  ELSE IF Head(parts) = None \/ Head(parts) = Some(<<>>)
       THEN JoinParts(Tail(parts))
  ELSE LET rest == JoinParts(Tail(parts))
       IN IF rest = <<>> THEN Val(Head(parts))
          ELSE Val(Head(parts)) \o <<",", " ">> \o rest

formatAddress(address) ==
  JoinParts(<<address.street, address.city, address.state, address.country>>)

\* Number.prototype.toFixed(1) of watts / 1000 (no catalogue value sits on a
\* rounding tie, so binary representation does not matter)
ToFixed1(w) ==
  LET t == (w + 50) \div 100
  IN ToString(t \div 10) \o "." \o ToString(t % 10)

(***************************************************************************)
(* The remote account: a fixed catalogue of systems, in list order.        *)
(***************************************************************************)
Digit(n) == <<"0", "1", "2", "3", "4", "5", "6", "7", "8", "9">>[n + 1]

IdOf(i) == <<"p", Digit(i \div 10), Digit(i % 10)>>

NameOf(i) ==
  (CASE i % 3 = 0 -> <<"S", "u", "n">>
     [] i % 3 = 1 -> <<"s", "k", "y">>
     [] OTHER     -> <<"B", "a", "y">>)
  \o <<Digit(i % 10)>>

Metadata(i) ==
  [pvSystemId |-> IdOf(i),
   name       |-> NameOf(i),
   address    |-> [street  |-> IF i % 2 = 0 THEN None ELSE Some(<<"1">>),
                   city    |-> Some(<<"O", "s", "l", "o">>),
                   state   |-> Some(<<>>),
                   country |-> IF i % 5 = 0 THEN None ELSE Some(<<"U", "S">>)],
   pictureURL |-> None,
   peakPower  |-> Some(1000 * i),
   lastImport |-> "t0"]

\* api.getPvSystems(offset, limit)
getPvSystems(offset, limit) ==
  [k \in 1..(IF RemoteCount - offset < 0 THEN 0
             ELSE IF RemoteCount - offset < limit THEN RemoteCount - offset
             ELSE limit) |-> Metadata(offset + k)]

DigitValue(c) ==
  CASE c = "0" -> 0 [] c = "1" -> 1 [] c = "2" -> 2 [] c = "3" -> 3
    [] c = "4" -> 4 [] c = "5" -> 5 [] c = "6" -> 6 [] c = "7" -> 7
    [] c = "8" -> 8 [] OTHER -> 9

\* the catalogue position of the system with this id
IndexOfId(id) == 10 * DigitValue(id[2]) + DigitValue(id[3])

\* api.getPvSystemFlowData: what the remote answers when the call fulfils
FlowOf(i) ==
  CASE i % 4 = 0 -> Some([status |-> Some([isOnline |-> TRUE]),
                          data |-> Some([logDateTime |-> "t1",
                                         channels |-> Some(<<[channelName |-> "PowerPV",
                                                              value |-> Some(1500 + 100 * (i % 3))]>>)])])
    [] i % 4 = 1 -> Some([status |-> Some([isOnline |-> TRUE]),
                          data |-> Some([logDateTime |-> "t1",
                                         channels |-> Some(<<[channelName |-> "PowerPV",
                                                              value |-> None]>>)])])
    [] i % 4 = 2 -> Some([status |-> Some([isOnline |-> FALSE]), data |-> None])
    [] OTHER     -> None

\* api.getPvSystemAggregatedData(id, {from: today, duration: 1})
AggrOf(i) ==
  CASE i % 3 = 0 -> Some([data |-> Some(<<[channels |-> Some(<<[channelName |-> "EnergyProductionTotal",
                                                                value |-> Some(3200)]>>)]>>)])
    [] i % 3 = 1 -> Some([data |-> Some(<<[channels |-> Some(<<[channelName |-> "EnergyDay",
                                                                value |-> None]>>)]>>)])
    [] OTHER     -> Some([data |-> Some(<<>>)])

(***************************************************************************)
(* Outcome of the per-item enrichment fetches of one batch.  The awaits    *)
(* of an item are sequential, so an item's outcome is the first fetch that *)
(* rejects.  A batch either has no rejection or has rejections spread over *)
(* the catalogue so that every kind hits systems of every page.            *)
(***************************************************************************)
RejectKinds == {"none", "flow", "details", "aggr"}
Rejections == {"none", "some"}

\* the first fetch of system i to reject in the search engine
FirstReject(rej, i) ==
  IF rej = "none" THEN "none"
  ELSE CASE i % 5 = 1 -> "details"
         [] i % 5 = 3 -> "aggr"
         [] i % 5 = 4 -> "flow"
         [] OTHER     -> "none"

\* the same in the page loader, which issues no details fetch
PageFirstReject(rej, i) ==
  IF FirstReject(rej, i) = "details" THEN "none" ELSE FirstReject(rej, i)

(***************************************************************************)
(* DashboardScreen helpers.                                                *)
(***************************************************************************)
\* Array.prototype.find over a channel list; None when absent
RECURSIVE FindChannel(_, _)
FindChannel(channels, names) ==
  IF channels = <<>> THEN None
  ELSE IF Head(channels).channelName \in names THEN Some(Head(channels))
  ELSE FindChannel(Tail(channels), names)

\* a status rule that reports a reachable system that is not online as
\* warning
determineStatusWithWarning(flowData) ==
  IF flowData = None THEN "offline"
  ELSE IF Val(flowData).status = None THEN "offline"
  ELSE IF ~Val(Val(flowData).status).isOnline THEN "warning"
  ELSE "online"

determineStatus(flowData) ==
  IF flowData = None THEN "offline"
  ELSE IF Val(flowData).status = None THEN "offline"
  ELSE IF ~Val(Val(flowData).status).isOnline THEN "offline"
  ELSE "online"

extractPower(flowData) ==
  IF flowData = None THEN "0 kW"
  ELSE IF Val(flowData).data = None THEN "0 kW"
  ELSE IF Val(Val(flowData).data).channels = None THEN "0 kW"
  ELSE LET powerChannel ==
             FindChannel(Val(Val(Val(flowData).data).channels), {"PowerPV"})
       IN IF powerChannel # None /\ Val(powerChannel).value # None
          THEN ToFixed1(Val(Val(powerChannel).value)) \o " kW"
          ELSE "0 kW"

extractDailyEnergy(aggrData) ==
  IF aggrData = None THEN "0 kWh"
  ELSE IF Val(aggrData).data = None THEN "0 kWh"
  ELSE IF Val(Val(aggrData).data) = <<>> THEN "0 kWh"
  ELSE IF Val(Val(aggrData).data)[1].channels = None THEN "0 kWh"
  ELSE LET energyChannel ==
             FindChannel(Val(Val(Val(aggrData).data)[1].channels),
                         {"EnergyProductionTotal", "EnergyProduction", "EnergyDay"})
       IN IF energyChannel # None /\ Val(energyChannel).value # None
          THEN ToFixed1(Val(Val(energyChannel).value)) \o " kWh"
          ELSE "0 kWh"

\* the relative-time text depends on the clock; it is kept as a function of
\* the timestamp it was computed from
formatLastUpdated(dateTimeString) == "rel:" \o dateTimeString

\* (the three arguments are bound as values, so that each is computed once)
formatPvSystemData(system, flowData, aggrToday) ==
  CHOOSE formatted \in
    {LET status == determineStatus(flow)
     IN [id          |-> sys.pvSystemId,
         name        |-> sys.name,
         address     |-> formatAddress(sys.address),
         status      |-> status,
         power       |-> extractPower(flow),
         daily       |-> extractDailyEnergy(aggr),
         lastUpdated |-> formatLastUpdated(
                           IF flow # None /\ Val(flow).data # None
                           THEN Val(Val(flow).data).logDateTime
                           ELSE sys.lastImport),
         pictureURL  |-> sys.pictureURL,
         peakPower   |-> sys.peakPower,
         isActive    |-> status = "online"] :
       sys \in {system}, flow \in {flowData}, aggr \in {aggrToday}} : TRUE

formatBasicSystemData(system) ==
  [id         |-> system.pvSystemId,
   name       |-> system.name,
   address    |-> formatAddress(system.address),
   pictureURL |-> system.pictureURL]

\* the record the search engine substitutes when an item's fetch rejects
PartialOffline(basicSystem) ==
  [id          |-> basicSystem.id,
   name        |-> basicSystem.name,
   address     |-> basicSystem.address,
   status      |-> "offline",
   power       |-> "0 kW",
   daily       |-> "0 kWh",
   lastUpdated |-> "unknown",
   pictureURL  |-> basicSystem.pictureURL,
   peakPower   |-> None,
   isActive    |-> FALSE]

\* one item of the page loader's Promise.all: flowData and aggrToday keep
\* whatever was assigned before the rejection
EnrichPageItem(system, rej) ==
  LET i == IndexOfId(system.pvSystemId)
      r == PageFirstReject(rej, i)
      flowData  == IF r = "flow" THEN None ELSE FlowOf(i)
      aggrToday == IF r \in {"flow", "aggr"} THEN None ELSE AggrOf(i)
  IN formatPvSystemData(system, flowData, aggrToday)

\* a predicate that looks at the name only
MatchesQueryNameOnly(system, lowercaseQuery) ==
  Includes(ToLowerCase(system.name), lowercaseQuery)

\* the predicate shared by the directory search and the fallback filter
MatchesQuery(system, lowercaseQuery) ==
  \/ Includes(ToLowerCase(system.name), lowercaseQuery)
  \/ Includes(ToLowerCase(system.id), lowercaseQuery)
  \/ Includes(ToLowerCase(system.address), lowercaseQuery)

FilterByQuery(systems, query) ==
  LET Test(system) == MatchesQuery(system, ToLowerCase(query))
  IN SelectSeq(systems, Test)

\* Array.prototype.find(sys => sys.id === id); None when absent
FindById(systems, id) ==
  CHOOSE found \in
    {IF hits = {} THEN None
     ELSE Some(systems[CHOOSE k \in hits : \A j \in hits : k <= j]) :
       hits \in {{k \in 1..Len(systems) : systems[k].id = id}}} : TRUE

\* the three fetches of an item started together instead of one after the
\* other
ItemFetchesAllAtOnce(basicSystem, pv, rej) ==
  IF FindById(pv, basicSystem.id) # None THEN <<>>
  ELSE <<"flow", "details", "aggr">>

\* the fetches one item of the search engine's Promise.all issues, in order:
\* none for an item found in pvSystems, otherwise the awaits up to the first
\* one that rejects
ItemFetches(basicSystem, pv, rej) ==
  IF FindById(pv, basicSystem.id) # None THEN <<>>
  ELSE CASE FirstReject(rej, IndexOfId(basicSystem.id)) = "flow" -> <<"flow">>
         [] FirstReject(rej, IndexOfId(basicSystem.id)) = "details" ->
              <<"flow", "details">>
         [] OTHER -> <<"flow", "details", "aggr">>

\* one item of the search engine's Promise.all
EnrichSearchItem(basicSystem, pv, rej) ==
  CHOOSE item \in
    {IF existingSystem # None THEN Val(existingSystem)
     ELSE IF FirstReject(rej, i) = "none"
          THEN formatPvSystemData(Metadata(i), FlowOf(i), AggrOf(i))
          ELSE PartialOffline(basicSystem) :
       existingSystem \in {FindById(pv, basicSystem.id)},
       i \in {IndexOfId(basicSystem.id)}} : TRUE

(***************************************************************************)
(* String.prototype.localeCompare and the page sort.                       *)
(***************************************************************************)
CollationOrder ==
  <<" ", ",", "0", "1", "2", "3", "4", "5", "6", "7", "8", "9",
    "a", "b", "k", "l", "n", "o", "p", "s", "u", "y">>

RankTable ==
  [c \in {CollationOrder[k] : k \in 1..Len(CollationOrder)} |->
     CHOOSE k \in 1..Len(CollationOrder) : CollationOrder[k] = c]

Rank(c) == RankTable[LowerChar(c)]

\* -1, 0 or 1: letters first (case ignored), then lower case before upper
RECURSIVE PrimaryCompare(_, _)
PrimaryCompare(a, b) ==
  IF a = <<>> /\ b = <<>> THEN 0
  ELSE IF a = <<>> THEN -1
  ELSE IF b = <<>> THEN 1
  ELSE IF Rank(Head(a)) < Rank(Head(b)) THEN -1
  ELSE IF Rank(Head(a)) > Rank(Head(b)) THEN 1
  ELSE PrimaryCompare(Tail(a), Tail(b))

RECURSIVE CaseCompare(_, _)
CaseCompare(a, b) ==
  IF a = <<>> \/ b = <<>> THEN 0
  ELSE IF Head(a) = Head(b) THEN CaseCompare(Tail(a), Tail(b))
  ELSE IF LowerChar(Head(a)) = Head(a) THEN -1
  ELSE 1

localeCompare(a, b) ==
  IF PrimaryCompare(a, b) # 0 THEN PrimaryCompare(a, b) ELSE CaseCompare(a, b)

\* localeCompare tabulated over the names of the catalogue; a record carries
\* the catalogue name of its id
NameCollation ==
  [i \in 1..RemoteCount |->
     [j \in 1..RemoteCount |-> localeCompare(NameOf(i), NameOf(j))]]

\* the comparator of enhancedSystems.sort
CompareSystems(a, b) ==
  IF a.isActive /\ ~b.isActive THEN -1
  ELSE IF ~a.isActive /\ b.isActive THEN 1
  ELSE NameCollation[IndexOfId(a.id)][IndexOfId(b.id)]

\* stable insertion of x into a sorted sequence
RECURSIVE InsertSorted(_, _)
InsertSorted(sorted, x) ==
  IF sorted = <<>> THEN <<x>>
  ELSE IF CompareSystems(x, Head(sorted)) < 0 THEN <<x>> \o sorted
  ELSE <<Head(sorted)>> \o InsertSorted(Tail(sorted), x)

\* the first n items of systems in sorted order, the items inserted one by
\* one; the sorted prefix is bound as a value so that it is computed once
RECURSIVE SortPrefix(_, _)
SortPrefix(systems, n) ==
  IF n = 0 THEN <<>>
  ELSE CHOOSE r \in {InsertSorted(rest, systems[n]) :
                      rest \in {SortPrefix(systems, n - 1)}} : TRUE

SortSystems(systems) ==
  CHOOSE r \in {SortPrefix(s, Len(s)) : s \in {systems}} : TRUE

(***************************************************************************)
(* State.                                                                  *)
(***************************************************************************)
VARIABLES
  mounted,     \* DashboardScreen: the mount effects have run
  dash,        \* DashboardScreen: the useState values
  pageLoads,   \* DashboardScreen: loadPvSystemsPage calls in flight
  dirLoads,    \* DashboardScreen: loadAllSystemsBasicInfo calls in flight
  searches,    \* DashboardScreen: applySearchFilter calls awaiting Promise.all
  events,      \* user events so far
  detail,      \* PvSystemDetailScreen: route parameter and useState values
  checks,      \* PvSystemDetailScreen: checkAccess calls in flight
  batches,     \* PvSystemDetailScreen: fetchAllData calls awaiting allSettled
  charts,      \* PvSystemDetailScreen: fetchHistoricalData calls in flight
  accessOf,    \* history: outcome of the last finished access check per id
  login        \* LoginPage: the useState values, the signIn call in flight

dashVars == <<mounted, dash, pageLoads, dirLoads, searches>>
detailVars == <<detail, checks, batches, charts, accessOf>>
vars == <<mounted, dash, pageLoads, dirLoads, searches, events,
          detail, checks, batches, charts, accessOf, login>>

RemoveAt(s, k) == SubSeq(s, 1, k - 1) \o SubSeq(s, k + 1, Len(s))

\* the values a function created during a render has closed over
Closure(d) ==
  [searchQuery         |-> d.searchQuery,
   pvSystems           |-> d.pvSystems,
   allSystemsBasicInfo |-> d.allSystemsBasicInfo]

DashInit ==
  [refreshing          |-> FALSE,
   pvSystems           |-> <<>>,
   filteredSystems     |-> <<>>,
   searchQuery         |-> <<>>,
   loading             |-> TRUE,
   error               |-> None,
   totalSystems        |-> 0,
   currentPage         |-> 0,
   hasMorePages        |-> TRUE,
   isLoadingMore       |-> FALSE,
   allSystemsBasicInfo |-> <<>>,
   isSearching         |-> FALSE,
   isLoadingAllSystems |-> TRUE]

\* the first render: what the mount effect and the memoised onRefresh
\* (useCallback with no dependencies) have closed over
FirstRender == Closure(DashInit)

\* what a loadPvSystemsPage created in render d can read after its awaits:
\* searchQuery always, the two lists only through applySearchFilter, which
\* it calls only for a query that is non-empty after trimming
PageClosure(d) ==
  IF Trim(d.searchQuery) = <<>>
  THEN [Closure(d) EXCEPT !.pvSystems = <<>>, !.allSystemsBasicInfo = <<>>]
  ELSE Closure(d)

Queries == {<<>>, <<" ">>, <<"s">>, <<"B", "a">>, <<"z">>}

DashboardConstructed ==
  /\ mounted = FALSE
  /\ dash = DashInit
  /\ pageLoads = <<>>
  /\ dirLoads = 0
  /\ searches = <<>>

(***************************************************************************)
(* applySearchFilter(query) as defined in the render that closed over env. *)
(* The result is the state after the synchronous part and the calls left   *)
(* awaiting their item fetches; when every matched item is already in      *)
(* env.pvSystems no fetch is issued and Promise.all settles at once.       *)
(***************************************************************************)
MatchedBasicSystems(query, env) == FilterByQuery(env.allSystemsBasicInfo, query)

SystemsToLoad(matched) ==
  SubSeq(matched, 1, IF Len(matched) < SearchCap THEN Len(matched) ELSE SearchCap)

\* (the two lists are bound as values, so that each is computed once)
EnhancedMatchedSystems(systemsToLoad, pv, rej) ==
  CHOOSE r \in {[k \in 1..Len(s) |-> EnrichSearchItem(s[k], p, rej)] :
                  s \in {systemsToLoad}, p \in {pv}} : TRUE

applySearchFilter(d, query, env) ==
  IF Trim(query) = <<>>
  THEN [dash |-> [d EXCEPT !.isSearching = FALSE,
                           !.filteredSystems = env.pvSystems],
        started |-> <<>>]
  ELSE CHOOSE result \in
         {IF matched = <<>>
          THEN [dash |-> [d EXCEPT !.filteredSystems = <<>>,
                                   !.isSearching = FALSE],
                started |-> <<>>]
          ELSE IF \A k \in 1..Len(systemsToLoad) :
                    FindById(env.pvSystems, systemsToLoad[k].id) # None
          THEN [dash |-> [d EXCEPT
                   !.filteredSystems =
                      EnhancedMatchedSystems(systemsToLoad, env.pvSystems, "none"),
                   !.isSearching = FALSE],
                started |-> <<>>]
          ELSE [dash |-> [d EXCEPT !.isSearching = TRUE],
                started |-> <<[query         |-> query,
                               systemsToLoad |-> systemsToLoad,
                               pvSystems     |-> env.pvSystems]>>] :
            matched \in {MatchedBasicSystems(query, env)},
            systemsToLoad \in {SystemsToLoad(MatchedBasicSystems(query, env))}} : TRUE

\* the effect on [searchQuery, allSystemsBasicInfo], run in the render d
SearchEffect(d) ==
  IF Len(d.allSystemsBasicInfo) > 0
  THEN applySearchFilter(d, d.searchQuery, Closure(d))
  ELSE IF Len(d.pvSystems) > 0
  THEN [dash |-> [d EXCEPT !.filteredSystems =
                              FilterByQuery(d.pvSystems, d.searchQuery)],
        started |-> <<>>]
  ELSE [dash |-> d, started |-> <<>>]

(***************************************************************************)
(* loadPvSystemsPage(page, showLoading), up to its first await.            *)
(***************************************************************************)
StartPageLoad(d, page, showLoading) ==
  IF ~showLoading THEN d
  ELSE IF page = 0 THEN [d EXCEPT !.loading = TRUE]
  ELSE [d EXCEPT !.isLoadingMore = TRUE]

PageLoadOp(page, isRefresh, env) ==
  [page |-> page, isRefresh |-> isRefresh, phase |-> "list",
   systemsData |-> <<>>, env |-> env]

\* a refresh whose .finally is missing: refreshing is never lowered
SettledKeepingRefreshing(d, op) == d

\* the .finally of onRefresh, run when the refresh's page load settles
Settled(d, op) == IF op.isRefresh THEN [d EXCEPT !.refreshing = FALSE] ELSE d

\* mount effects: loadPvSystemsPage(0) and loadAllSystemsBasicInfo()
Mount ==
  /\ ~mounted
  /\ mounted' = TRUE
  /\ dash' = [StartPageLoad(dash, 0, TRUE) EXCEPT !.isLoadingAllSystems = TRUE]
  /\ pageLoads' = Append(pageLoads, PageLoadOp(0, FALSE, FirstRender))
  /\ dirLoads' = dirLoads + 1
  /\ UNCHANGED <<searches, events, detailVars, login>>

\* api.getPvSystems(offset, SYSTEMS_PER_PAGE) of page load k settles
PageListReturn(k, outcome) ==
  /\ k \in 1..Len(pageLoads)
  /\ pageLoads[k].phase = "list"
  /\ LET op == pageLoads[k]
         systemsData == getPvSystems(op.page * SYSTEMS_PER_PAGE, SYSTEMS_PER_PAGE)
     IN IF outcome = "reject"
        THEN /\ dash' = Settled([dash EXCEPT
                          !.error = Some("Failed to load PV systems. Please try again."),
                          !.loading = FALSE,
                          !.isLoadingMore = FALSE], op)
             /\ pageLoads' = RemoveAt(pageLoads, k)
        ELSE IF Len(systemsData) = 0
        THEN /\ dash' = Settled([dash EXCEPT
                          !.error = IF op.page = 0 THEN Some("No PV systems found")
                                    ELSE @,
                          !.hasMorePages = FALSE,
                          !.loading = FALSE,
                          !.isLoadingMore = FALSE], op)
             /\ pageLoads' = RemoveAt(pageLoads, k)
        ELSE /\ dash' = [dash EXCEPT
                          !.hasMorePages = (Len(systemsData) = SYSTEMS_PER_PAGE)]
             /\ pageLoads' = [pageLoads EXCEPT ![k].phase = "enrich",
                                               ![k].systemsData = systemsData]
  /\ UNCHANGED <<mounted, dirLoads, searches, events, detailVars, login>>

\* a Promise.all whose item handler loses the items whose fetch rejected
EnhancedSystemsDroppingFailed(systemsData, rej) ==
  LET Fetched(system) == PageFirstReject(rej, IndexOfId(system.pvSystemId)) = "none"
      kept == SelectSeq(systemsData, Fetched)
  IN [k \in 1..Len(kept) |-> EnrichPageItem(kept[k], rej)]

\* (the list is bound as a value, so that it is computed once)
EnhancedSystems(systemsData, rej) ==
  CHOOSE r \in {[k \in 1..Len(s) |-> EnrichPageItem(s[k], rej)] :
                  s \in {systemsData}} : TRUE

\* the Promise.all over the page's items settles: sort, merge, finish
PageEnrichComplete(k, rej) ==
  /\ k \in 1..Len(pageLoads)
  /\ pageLoads[k].phase = "enrich"
  /\ \E op \in {pageLoads[k]} :
     \E sortedSystems \in {SortSystems(EnhancedSystems(op.systemsData, rej))} :
     \E d1 \in {[dash EXCEPT !.pvSystems = IF op.page = 0 THEN sortedSystems
                                           ELSE @ \o sortedSystems]} :
     \E r \in {IF Trim(op.env.searchQuery) # <<>>
               THEN applySearchFilter(d1, op.env.searchQuery, op.env)
               ELSE [dash |-> [d1 EXCEPT !.filteredSystems =
                                  IF op.page = 0 THEN sortedSystems
                                  ELSE @ \o sortedSystems],
                     started |-> <<>>]} :
        /\ dash' = Settled([r.dash EXCEPT !.currentPage = op.page,
                                          !.loading = FALSE,
                                          !.isLoadingMore = FALSE], op)
        /\ searches' = searches \o r.started
        /\ Len(searches') <= MaxSearches
        /\ pageLoads' = RemoveAt(pageLoads, k)
  /\ UNCHANGED <<mounted, dirLoads, events, detailVars, login>>

\* FlatList onEndReached / the Load More button; the list is on screen only
\* when neither the spinner nor the error prompt is
handleLoadMore ==
  /\ mounted
  /\ ~dash.loading /\ dash.error = None
  /\ events < MaxEvents
  /\ events' = events + 1
  /\ ~dash.isLoadingMore /\ dash.hasMorePages /\ Trim(dash.searchQuery) = <<>>
  /\ Len(pageLoads) < MaxPageLoads
  /\ dash' = StartPageLoad(dash, dash.currentPage + 1, FALSE)
  /\ pageLoads' = Append(pageLoads,
                         PageLoadOp(dash.currentPage + 1, FALSE, PageClosure(dash)))
  /\ UNCHANGED <<mounted, dirLoads, searches, detailVars, login>>

\* the body of onRefresh
RefreshBody ==
  /\ Len(pageLoads) < MaxPageLoads
  /\ events < MaxEvents
  /\ events' = events + 1
  /\ dash' = StartPageLoad([dash EXCEPT !.refreshing = TRUE,
                                        !.currentPage = 0,
                                        !.hasMorePages = TRUE], 0, FALSE)
  /\ pageLoads' = Append(pageLoads, PageLoadOp(0, TRUE, FirstRender))
  /\ UNCHANGED <<mounted, dirLoads, searches, detailVars, login>>

\* header refresh button (disabled while refreshing) and pull-to-refresh
onRefresh ==
  /\ mounted
  /\ ~dash.refreshing
  /\ RefreshBody

\* the Retry button of the error prompt calls onRefresh
Retry ==
  /\ mounted
  /\ ~dash.loading /\ dash.error # None
  /\ RefreshBody

\* TextInput onChangeText / the clear buttons, then the search effect
setSearchQuery(q) ==
  /\ mounted
  /\ q # dash.searchQuery
  /\ events < MaxEvents
  /\ events' = events + 1
  /\ LET r == SearchEffect([dash EXCEPT !.searchQuery = q])
     IN /\ dash' = r.dash
        /\ searches' = searches \o r.started
        /\ Len(searches') <= MaxSearches
  /\ UNCHANGED <<mounted, pageLoads, dirLoads, detailVars, login>>

\* a directory load whose failure raises the error prompt
DirLoadCompleteRaisingError(outcome) ==
  /\ dirLoads > 0
  /\ dirLoads' = dirLoads - 1
  /\ LET allSystemsData == IF outcome = "empty" THEN <<>>
                           ELSE getPvSystems(0, 1000)
     IN IF outcome = "reject" \/ Len(allSystemsData) = 0
        THEN /\ dash' = [dash EXCEPT
                          !.error = Some("Failed to load PV systems. Please try again."),
                          !.isLoadingAllSystems = FALSE]
             /\ UNCHANGED searches
        ELSE LET basicSystemsInfo ==
                   [k \in 1..Len(allSystemsData) |->
                      formatBasicSystemData(allSystemsData[k])]
                 r == SearchEffect([dash EXCEPT
                        !.allSystemsBasicInfo = basicSystemsInfo,
                        !.totalSystems = Len(basicSystemsInfo),
                        !.isLoadingAllSystems = FALSE])
             IN /\ dash' = r.dash
                /\ searches' = searches \o r.started
                /\ Len(searches') <= MaxSearches
  /\ UNCHANGED <<mounted, pageLoads, events, detailVars, login>>

\* api.getPvSystems(0, 1000) of loadAllSystemsBasicInfo settles: with the
\* account's systems ("ok"), with no system ("empty"), or it rejects
DirLoadComplete(outcome) ==
  /\ dirLoads > 0
  /\ dirLoads' = dirLoads - 1
  /\ LET allSystemsData == IF outcome = "empty" THEN <<>>
                           ELSE getPvSystems(0, 1000)
     IN IF outcome = "reject" \/ Len(allSystemsData) = 0
        THEN /\ dash' = [dash EXCEPT !.isLoadingAllSystems = FALSE]
             /\ UNCHANGED searches
        ELSE LET basicSystemsInfo ==
                   [k \in 1..Len(allSystemsData) |->
                      formatBasicSystemData(allSystemsData[k])]
                 r == SearchEffect([dash EXCEPT
                        !.allSystemsBasicInfo = basicSystemsInfo,
                        !.totalSystems = Len(basicSystemsInfo),
                        !.isLoadingAllSystems = FALSE])
             IN /\ dash' = r.dash
                /\ searches' = searches \o r.started
                /\ Len(searches') <= MaxSearches
  /\ UNCHANGED <<mounted, pageLoads, events, detailVars, login>>

\* a search resolution that also ends pagination
SearchCompleteEndingPagination(k, rej) ==
  /\ k \in 1..Len(searches)
  /\ LET op == searches[k]
     IN dash' = [dash EXCEPT
                   !.filteredSystems =
                      EnhancedMatchedSystems(op.systemsToLoad, op.pvSystems, rej),
                   !.hasMorePages = FALSE,
                   !.isSearching = FALSE]
  /\ searches' = RemoveAt(searches, k)
  /\ UNCHANGED <<mounted, pageLoads, dirLoads, events, detailVars, login>>

\* a search resolution tagged with its query: a result for a query that is
\* no longer the current one is discarded
SearchCompleteDroppingStale(k, rej) ==
  /\ k \in 1..Len(searches)
  /\ LET op == searches[k]
     IN dash' = IF op.query # dash.searchQuery
                THEN [dash EXCEPT !.isSearching = FALSE]
                ELSE [dash EXCEPT
                        !.filteredSystems =
                           EnhancedMatchedSystems(op.systemsToLoad, op.pvSystems, rej),
                        !.isSearching = FALSE]
  /\ searches' = RemoveAt(searches, k)
  /\ UNCHANGED <<mounted, pageLoads, dirLoads, events, detailVars, login>>

\* the Promise.all of search resolution k settles
SearchComplete(k, rej) ==
  /\ k \in 1..Len(searches)
  /\ LET op == searches[k]
     IN dash' = [dash EXCEPT
                   !.filteredSystems =
                      EnhancedMatchedSystems(op.systemsToLoad, op.pvSystems, rej),
                   !.isSearching = FALSE]
  /\ searches' = RemoveAt(searches, k)
  /\ UNCHANGED <<mounted, pageLoads, dirLoads, events, detailVars, login>>


(***************************************************************************)
(* PvSystemDetailScreen.                                                   *)
(***************************************************************************)
MaxChecks == 2         \* checkAccess calls in flight at once
MaxBatches == 2        \* fetchAllData calls in flight at once
MaxCharts == 2         \* fetchHistoricalData calls in flight at once
MaxDetailEvents == 2   \* route changes, refreshes and period presses

SystemIds == {"A", "B"}
ChartPeriods == {"day", "week", "month", "year"}

DetailInit(pvSystemId) ==
  [pvSystemId              |-> pvSystemId,
   unmounted               |-> FALSE,
   refreshing              |-> FALSE,
   hasAccess               |-> None,
   isAdmin                 |-> FALSE,
   checkingAccess          |-> TRUE,
   pvSystemDetails         |-> None,
   flowData                |-> None,
   aggregatedDataToday     |-> None,
   aggregatedDataTotal     |-> None,
   weatherData             |-> None,
   messages                |-> <<>>,
   devices                 |-> <<>>,
   loading                 |-> TRUE,
   error                   |-> None,
   energyHistData          |-> None,
   selectedChartPeriod     |-> "day",
   chartLoading            |-> FALSE,
   weeklyEnergyProduction  |-> None,
   monthlyEnergyProduction |-> None,
   yearlyEnergyProduction  |-> None,
   dailyCo2Savings         |-> None,
   weeklyCo2Savings        |-> None,
   monthlyCo2Savings       |-> None,
   yearlyCo2Savings        |-> None]

DetailConstructed(pvSystemId) ==
  /\ detail = DetailInit(pvSystemId)
  /\ checks = <<>>
  /\ batches = <<>>
  /\ charts = <<>>
  /\ accessOf = [s \in SystemIds |-> "unchecked"]

\* which of the screen's returns is rendered
View(d) ==
  IF d.hasAccess = Some(FALSE) /\ ~d.checkingAccess THEN "accessDenied"
  ELSE IF (d.loading /\ ~d.refreshing) \/ d.checkingAccess THEN "loading"
  ELSE IF d.error # None THEN "error"
  ELSE IF d.pvSystemDetails = None THEN "noData"
  ELSE "dashboard"

(***************************************************************************)
(* The remote's answers for the detail screen.                             *)
(***************************************************************************)
Channel(name, value) == [channelName |-> name, value |-> value]

Row(date, channels) == [logDateTime |-> date, channels |-> channels]

\* api.getPvSystemAggregatedData(id, {from, duration, channel})
AggregateRows(id, channel, duration) ==
  IF duration = 1
  THEN IF id = "A" THEN <<Row(<<"d7">>, <<Channel(channel, Some(800))>>)>>
       ELSE <<>>
  ELSE IF duration = 7
  THEN IF id = "A"
       THEN <<Row(<<"d1">>, <<Channel(channel, Some(1000))>>),
              Row(<<"d2">>, <<Channel(channel, Some(1200))>>),
              Row(<<"d3">>, <<Channel(channel, Some(900))>>),
              Row(<<"d4">>, <<Channel(channel, None)>>),
              Row(<<"d5">>, <<Channel(channel, Some(1100))>>),
              Row(<<"d6">>, <<Channel(channel, Some(950))>>),
              Row(<<"d7">>, <<Channel(channel, Some(1050))>>)>>
       ELSE <<Row(<<"d6">>, <<Channel("Other", Some(5))>>),
              Row(<<"d7", "T", "12:00:00Z">>, <<Channel(channel, Some(40))>>)>>
  ELSE IF duration = 30
  THEN IF id = "A"
       THEN <<Row(<<"d1">>, <<Channel(channel, Some(20000))>>),
              Row(<<"d7">>, <<Channel(channel, Some(6200))>>)>>
       ELSE <<>>
  ELSE <<Row(<<"d1">>, <<Channel(channel, Some(IF id = "A" THEN 300000 ELSE 0))>>),
         Row(<<"d7">>, <<>>)>>

AggregateOf(id, channel, duration) ==
  [pvSystemId |-> id, deviceId |-> None,
   data |-> AggregateRows(id, channel, duration)]

\* api.getPvSystemAggregatedData(id, {period: "total", channel})
TotalOf(id) ==
  [pvSystemId |-> id, deviceId |-> None,
   data |-> <<Row(<<"total">>, <<Channel("SavingsCO2",
                                         Some(IF id = "A" THEN 900 ELSE 7))>>)>>]

DetailsOf(id) == [pvSystemId |-> id, name |-> IF id = "A" THEN "Alpha" ELSE "Beta"]

DetailFlowOf(id) ==
  IF id = "A"
  THEN Some([status |-> Some([isOnline |-> TRUE]),
             data |-> Some([logDateTime |-> "t1",
                            channels |-> Some(<<Channel("PowerPV", Some(1500))>>)])])
  ELSE None

WeatherOf(id) == [pvSystemId |-> id, symbol |-> IF id = "A" THEN "1" ELSE "3"]

MessagesOf(id) ==
  IF id = "A" THEN <<>>
  ELSE <<[pvSystemId |-> id, stateSeverity |-> "Error", stateCode |-> 567]>>

\* api.getPvSystemDevices may answer null
DevicesOf(id) ==
  IF id = "A" THEN Some(<<[deviceId |-> "inv1"]>>) ELSE None

\* api.getPvSystemHistoricalData(id, {from, to, channel, timezone})
HistoricalOf(id) ==
  [pvSystemId |-> id, deviceId |-> None,
   data |-> IF id = "A"
            THEN <<[logDateTime |-> <<"d7", "T", "10:00:00Z">>, logDuration |-> 300,
                    channels |-> <<Channel("EnergyProductionTotal", Some(12))>>],
                   [logDateTime |-> <<"d7", "T", "10:05:00Z">>, logDuration |-> 300,
                    channels |-> <<Channel("EnergyProductionTotal", Some(15))>>]>>
            ELSE <<>>]

(***************************************************************************)
(* Detail screen helpers.                                                  *)
(***************************************************************************)
\* channels?.find((c) => c.channelName === channelName)?.value ?? null
findChannelValue(channels, channelName) ==
  LET c == FindChannel(channels, {channelName})
  IN IF c = None THEN None ELSE Val(c).value

\* a reduce that stops adding at the first row without a value
RECURSIVE SumChannelUntilNull(_, _)
SumChannelUntilNull(rows, channelName) ==
  IF rows = <<>> THEN 0
  ELSE LET value == findChannelValue(rows[1].channels, channelName)
       IN IF value = None THEN 0
          ELSE Val(value) + SumChannelUntilNull(Tail(rows), channelName)

\* data.reduce((total, item) => total + (value || 0), 0)
RECURSIVE SumChannel(_, _)
SumChannel(rows, channelName) ==
  IF rows = <<>> THEN 0
  ELSE LET value == findChannelValue(rows[Len(rows)].channels, channelName)
       IN SumChannel(SubSeq(rows, 1, Len(rows) - 1), channelName)
          + (IF value = None THEN 0 ELSE Val(value))

\* a reshaping that appends the time part to every row's date
AdaptedEnergyDataAlwaysAppending(energyData) ==
  [pvSystemId |-> energyData.pvSystemId,
   deviceId   |-> energyData.deviceId,
   data |-> [k \in 1..Len(energyData.data) |->
              [logDateTime |-> energyData.data[k].logDateTime \o <<"T", "00:00:00Z">>,
               logDuration |-> 86400,
               channels |-> energyData.data[k].channels]]]

\* the rows of an aggregate answer in the point shape of the historical one
AdaptedEnergyData(energyData) ==
  [pvSystemId |-> energyData.pvSystemId,
   deviceId   |-> energyData.deviceId,
   data |-> [k \in 1..Len(energyData.data) |->
              [logDateTime |->
                 IF \E j \in 1..Len(energyData.data[k].logDateTime) :
                      energyData.data[k].logDateTime[j] = "T"
                 THEN energyData.data[k].logDateTime
                 ELSE energyData.data[k].logDateTime \o <<"T", "00:00:00Z">>,
               logDuration |-> 86400,
               channels |-> energyData.data[k].channels]]]

DurationDays(period) ==
  CASE period = "week" -> 7 [] period = "month" -> 30 [] OTHER -> 365

\* what fetchHistoricalData stores when its fetch fulfils
ChartSeries(id, period) ==
  LET energyData == IF period = "day" THEN HistoricalOf(id)
                    ELSE AggregateOf(id, "EnergyProductionTotal",
                                     DurationDays(period))
  IN IF Len(energyData.data) = 0 THEN None
     ELSE IF period = "day" THEN Some(energyData)
     ELSE Some(AdaptedEnergyData(energyData))

(***************************************************************************)
(* Effects and async functions of a render.  ctx is the state being built  *)
(* by the batched setState calls plus the calls started; cur is the render *)
(* whose closures run.                                                     *)
(***************************************************************************)
Ctx(d, c, b, h) == [d |-> d, checks |-> c, batches |-> b, charts |-> h]

\* checkAccess() up to its first await
StartCheckAccess(cur, ctx) ==
  IF cur.pvSystemId = None
  THEN [ctx EXCEPT !.d.checkingAccess = FALSE]
  ELSE [ctx EXCEPT !.d.checkingAccess = TRUE,
                   !.checks = Append(@, [pvSystemId |-> Val(cur.pvSystemId)])]

\* a fetchAllData that starts without clearing the error
fetchAllDataKeepingError(cur, ctx) ==
  IF cur.hasAccess = Some(FALSE) THEN ctx
  ELSE IF cur.pvSystemId = None
  THEN [ctx EXCEPT
          !.d.error = Some("Failed to load system data: Invalid or missing PV System ID"),
          !.d.loading = FALSE,
          !.d.refreshing = FALSE]
  ELSE [ctx EXCEPT !.d.loading = TRUE,
                   !.batches = Append(@, [pvSystemId |-> Val(cur.pvSystemId)])]

\* fetchAllData() up to its await
fetchAllData(cur, ctx) ==
  IF cur.hasAccess = Some(FALSE) THEN ctx
  ELSE IF cur.pvSystemId = None
  THEN [ctx EXCEPT
          !.d.error = Some("Failed to load system data: Invalid or missing PV System ID"),
          !.d.loading = FALSE,
          !.d.refreshing = FALSE]
  ELSE [ctx EXCEPT !.d.loading = TRUE,
                   !.d.error = None,
                   !.batches = Append(@, [pvSystemId |-> Val(cur.pvSystemId)])]

\* fetchHistoricalData(period) up to its await
fetchHistoricalData(cur, ctx, period) ==
  IF cur.pvSystemId = None \/ cur.hasAccess = Some(FALSE) THEN ctx
  ELSE [ctx EXCEPT !.d.chartLoading = TRUE,
                   !.d.energyHistData = None,
                   !.charts = Append(@, [pvSystemId |-> Val(cur.pvSystemId),
                                         period |-> period])]

\* useEffect [pvSystemId, hasAccess, checkingAccess]
FetchEffect(cur, ctx) ==
  IF cur.checkingAccess THEN ctx
  ELSE IF cur.hasAccess = Some(FALSE) THEN [ctx EXCEPT !.d.loading = FALSE]
  ELSE IF cur.pvSystemId = None
  THEN [ctx EXCEPT !.d.error = Some("Invalid or missing PV System ID."),
                   !.d.loading = FALSE]
  ELSE fetchAllData(cur, ctx)

\* useEffect [selectedChartPeriod, pvSystemId, hasAccess, checkingAccess]
ChartEffect(cur, ctx) ==
  IF cur.hasAccess = Some(TRUE) /\ cur.pvSystemId # None /\ ~cur.checkingAccess
  THEN fetchHistoricalData(cur, ctx, cur.selectedChartPeriod)
  ELSE ctx

\* the effects of the render ctx.d whose dependencies differ from the
\* previous render's, in declaration order, and then those of the render
\* their setState calls cause
RECURSIVE Commit(_, _)
Commit(prev, ctx) ==
  CHOOSE committed \in
    {LET cur == now.d
         idChanged     == cur.pvSystemId # was.pvSystemId
         accessChanged == \/ cur.hasAccess # was.hasAccess
                          \/ cur.checkingAccess # was.checkingAccess
         periodChanged == cur.selectedChartPeriod # was.selectedChartPeriod
         a == IF idChanged THEN StartCheckAccess(cur, now) ELSE now
         b == IF idChanged \/ accessChanged THEN FetchEffect(cur, a) ELSE a
         c == IF idChanged \/ accessChanged \/ periodChanged
              THEN ChartEffect(cur, b) ELSE b
     IN IF ~(idChanged \/ accessChanged \/ periodChanged) THEN now
        ELSE Commit(cur, c) :
       was \in {prev}, now \in {ctx}} : TRUE

\* the state and calls after the handler's setState calls gave next
Rendered(next, c, b, h) == Commit(detail, Ctx(next, c, b, h))

Install(ctx) ==
  \E c \in {ctx} :
  /\ detail' = c.d
  /\ checks' = c.checks
  /\ batches' = c.batches
  /\ charts' = c.charts
  /\ Len(checks') <= MaxChecks
  /\ Len(batches') <= MaxBatches
  /\ Len(charts') <= MaxCharts

\* first commit: every effect runs with the initial render's closures
DetailMount ==
  /\ ~mounted
  /\ mounted' = TRUE
  /\ LET cur == detail
         a == StartCheckAccess(cur, Ctx(cur, checks, batches, charts))
         b == FetchEffect(cur, a)
         c == ChartEffect(cur, b)
     IN Install(Commit(cur, c))
  /\ UNCHANGED <<dash, pageLoads, dirLoads, searches, events, accessOf, login>>

\* what getCurrentUser() settles with: a signed-in user, no session, or a
\* rejection (the user's role is stored in isAdmin, which nothing reads, so
\* one role is drawn)
UserOutcomes == {"user", "none", "throw"}

\* getCurrentUser() of check k settles with user; access is what
\* hasSystemAccess answers
CheckAccessComplete(k, user, access) ==
  /\ mounted /\ ~detail.unmounted
  /\ k \in 1..Len(checks)
  /\ LET op == checks[k]
         next ==
           IF user = "throw"
           THEN [detail EXCEPT !.hasAccess = Some(FALSE),
                               !.checkingAccess = FALSE]
           ELSE IF user = "none"
           THEN [detail EXCEPT !.hasAccess = Some(FALSE),
                               !.checkingAccess = FALSE]
           ELSE [detail EXCEPT !.isAdmin = (user = "admin"),
                               !.hasAccess = Some(access),
                               !.loading = IF ~access THEN FALSE ELSE @,
                               !.checkingAccess = FALSE]
         ctx == Rendered(next, RemoveAt(checks, k), batches, charts)
     IN /\ Install([ctx EXCEPT !.d.unmounted = (user = "none")])
        /\ accessOf' = [accessOf EXCEPT ![op.pvSystemId] =
                          IF user \in {"user", "admin"} /\ access
                          THEN "granted" ELSE "denied"]
  /\ UNCHANGED <<dashVars, login, events>>

\* the route parameter arrives or changes to another system while the
\* screen stays mounted
ParamChange(id) ==
  /\ mounted /\ ~detail.unmounted
  /\ Some(id) # detail.pvSystemId
  /\ events < MaxDetailEvents
  /\ events' = events + 1
  /\ Install(Rendered([detail EXCEPT !.pvSystemId = Some(id)],
                      checks, batches, charts))
  /\ UNCHANGED <<dashVars, login, accessOf>>

\* the weekly, monthly and yearly totals fetchAllData derives from the
\* aggregate answers of each system, by channel and duration in days
PeriodTotals ==
  [id \in SystemIds |->
    [channel \in {"EnergyProductionTotal", "SavingsCO2"} |->
      [duration \in {7, 30, 365} |->
        SumChannel(AggregateOf(id, channel, duration).data, channel)]]]

FetchNames ==
  {"details", "flow", "aggrToday", "aggrWeek", "aggrMonth", "aggrYear",
   "aggrCo2Today", "aggrCo2Week", "aggrCo2Month", "aggrCo2Year",
   "aggrTotal", "weather", "msgs", "devs"}

\* the sets of rejected fetches a batch is completed with
BatchRejections ==
  {{}, {"details"}, {"flow", "msgs"}, FetchNames \ {"details"}}

\* a batch completion that treats a rejected flow fetch like rejected details
FetchAllDataCompleteFailingOnFlow(k, rejected) ==
  /\ mounted /\ ~detail.unmounted
  /\ k \in 1..Len(batches)
  /\ LET id == batches[k].pvSystemId
         Ok(f) == f \notin rejected
         Energy(duration) == PeriodTotals[id]["EnergyProductionTotal"][duration]
         Co2(duration) == PeriodTotals[id]["SavingsCO2"][duration]
         co2Today == AggregateOf(id, "SavingsCO2", 1).data
         next ==
           IF ~Ok("details") \/ ~Ok("flow")
           THEN [detail EXCEPT
                   !.error = Some("Failed to load system data: request failed"),
                   !.loading = FALSE,
                   !.refreshing = FALSE]
           ELSE [detail EXCEPT
                   !.pvSystemDetails = Some(DetailsOf(id)),
                   !.flowData = IF Ok("flow") THEN DetailFlowOf(id) ELSE @,
                   !.aggregatedDataToday =
                      IF Ok("aggrToday")
                      THEN Some(AggregateOf(id, "EnergyProductionTotal", 1)) ELSE @,
                   !.weeklyEnergyProduction =
                      IF Ok("aggrWeek") THEN Some(Energy(7)) ELSE @,
                   !.monthlyEnergyProduction =
                      IF Ok("aggrMonth") THEN Some(Energy(30)) ELSE @,
                   !.yearlyEnergyProduction =
                      IF Ok("aggrYear") THEN Some(Energy(365)) ELSE @,
                   !.aggregatedDataTotal =
                      IF Ok("aggrTotal") THEN Some(TotalOf(id)) ELSE @,
                   !.weatherData = IF Ok("weather") THEN Some(WeatherOf(id)) ELSE @,
                   !.messages = IF Ok("msgs") THEN MessagesOf(id) ELSE <<>>,
                   !.devices =
                      IF Ok("devs")
                      THEN (IF DevicesOf(id) = None THEN <<>> ELSE Val(DevicesOf(id)))
                      ELSE @,
                   !.dailyCo2Savings =
                      IF Ok("aggrCo2Today")
                      THEN (IF co2Today = <<>> THEN None
                            ELSE findChannelValue(co2Today[1].channels, "SavingsCO2"))
                      ELSE @,
                   !.weeklyCo2Savings =
                      IF Ok("aggrCo2Week") THEN Some(Co2(7)) ELSE @,
                   !.monthlyCo2Savings =
                      IF Ok("aggrCo2Month") THEN Some(Co2(30)) ELSE @,
                   !.yearlyCo2Savings =
                      IF Ok("aggrCo2Year") THEN Some(Co2(365)) ELSE @,
                   !.loading = FALSE,
                   !.refreshing = FALSE]
     IN Install(Rendered(next, checks, RemoveAt(batches, k), charts))
  /\ UNCHANGED <<dashVars, login, events, accessOf>>

\* Promise.allSettled of batch k settles; rejected are the fetches that failed
FetchAllDataComplete(k, rejected) ==
  /\ mounted /\ ~detail.unmounted
  /\ k \in 1..Len(batches)
  /\ LET id == batches[k].pvSystemId
         Ok(f) == f \notin rejected
         Energy(duration) == PeriodTotals[id]["EnergyProductionTotal"][duration]
         Co2(duration) == PeriodTotals[id]["SavingsCO2"][duration]
         co2Today == AggregateOf(id, "SavingsCO2", 1).data
         next ==
           IF ~Ok("details")
           THEN [detail EXCEPT
                   !.error = Some("Failed to load system data: request failed"),
                   !.loading = FALSE,
                   !.refreshing = FALSE]
           ELSE [detail EXCEPT
                   !.pvSystemDetails = Some(DetailsOf(id)),
                   !.flowData = IF Ok("flow") THEN DetailFlowOf(id) ELSE @,
                   !.aggregatedDataToday =
                      IF Ok("aggrToday")
                      THEN Some(AggregateOf(id, "EnergyProductionTotal", 1)) ELSE @,
                   !.weeklyEnergyProduction =
                      IF Ok("aggrWeek") THEN Some(Energy(7)) ELSE @,
                   !.monthlyEnergyProduction =
                      IF Ok("aggrMonth") THEN Some(Energy(30)) ELSE @,
                   !.yearlyEnergyProduction =
                      IF Ok("aggrYear") THEN Some(Energy(365)) ELSE @,
                   !.aggregatedDataTotal =
                      IF Ok("aggrTotal") THEN Some(TotalOf(id)) ELSE @,
                   !.weatherData = IF Ok("weather") THEN Some(WeatherOf(id)) ELSE @,
                   !.messages = IF Ok("msgs") THEN MessagesOf(id) ELSE <<>>,
                   !.devices =
                      IF Ok("devs")
                      THEN (IF DevicesOf(id) = None THEN <<>> ELSE Val(DevicesOf(id)))
                      ELSE @,
                   !.dailyCo2Savings =
                      IF Ok("aggrCo2Today")
                      THEN (IF co2Today = <<>> THEN None
                            ELSE findChannelValue(co2Today[1].channels, "SavingsCO2"))
                      ELSE @,
                   !.weeklyCo2Savings =
                      IF Ok("aggrCo2Week") THEN Some(Co2(7)) ELSE @,
                   !.monthlyCo2Savings =
                      IF Ok("aggrCo2Month") THEN Some(Co2(30)) ELSE @,
                   !.yearlyCo2Savings =
                      IF Ok("aggrCo2Year") THEN Some(Co2(365)) ELSE @,
                   !.loading = FALSE,
                   !.refreshing = FALSE]
     IN Install(Rendered(next, checks, RemoveAt(batches, k), charts))
  /\ UNCHANGED <<dashVars, login, events, accessOf>>

\* the fetch of chart call k settles
ChartFetchComplete(k, outcome) ==
  /\ mounted /\ ~detail.unmounted
  /\ k \in 1..Len(charts)
  /\ LET op == charts[k]
         next == [detail EXCEPT
                    !.energyHistData =
                       IF outcome = "reject" THEN None
                       ELSE ChartSeries(op.pvSystemId, op.period),
                    !.chartLoading = FALSE]
     IN Install(Rendered(next, checks, batches, RemoveAt(charts, k)))
  /\ UNCHANGED <<dashVars, login, events, accessOf>>

\* RefreshControl and the Retry buttons of the error and no-data views
DetailRefresh ==
  /\ mounted /\ ~detail.unmounted
  /\ View(detail) \in {"error", "noData", "dashboard"}
  /\ events < MaxDetailEvents
  /\ events' = events + 1
  /\ LET ctx0 == Ctx([detail EXCEPT !.refreshing = TRUE], checks, batches, charts)
         ctx1 == fetchAllData(detail, ctx0)
         ctx2 == fetchHistoricalData(detail, ctx1, detail.selectedChartPeriod)
     IN Install(Commit(detail, ctx2))
  /\ UNCHANGED <<dashVars, login, accessOf>>

\* the chart period buttons
setSelectedChartPeriod(period) ==
  /\ mounted /\ ~detail.unmounted
  /\ View(detail) = "dashboard"
  /\ period # detail.selectedChartPeriod
  /\ events < MaxDetailEvents
  /\ events' = events + 1
  /\ Install(Rendered([detail EXCEPT !.selectedChartPeriod = period],
                      checks, batches, charts))
  /\ UNCHANGED <<dashVars, login, accessOf>>

(***************************************************************************)
(* LoginPage (src/app/index.tsx).                                          *)
(***************************************************************************)
\* what the user types into the two fields
Usernames == {<<>>, <<" ">>, <<"a", "l">>, <<" ", "a">>}
Passwords == {<<>>, <<" ">>, <<"p", "w">>}

\* what signIn(username, password) settles with: a user, null, or it throws
SignInOutcomes == {"user", "null", "throw"}

LoginInit ==
  [username        |-> <<>>,
   password        |-> <<>>,
   secureTextEntry |-> TRUE,
   isLoading       |-> FALSE,
   errors          |-> [username |-> "", password |-> ""],
   pending         |-> <<>>,     \* signIn calls in flight, with their arguments
   alert           |-> None,     \* the Alert on screen
   route           |-> "login",  \* the screen the router shows
   lastSignIn      |-> "none"]   \* history: how the last signIn call settled

LoginConstructed == login = LoginInit

\* the form can be touched: the page is on screen and no Alert covers it
FormOnScreen == login.route = "login" /\ login.alert = None

\* a validation that does not trim the username
validateFormWithoutTrim(l) ==
  [isValid |-> l.username # <<>> /\ l.password # <<>>,
   errors  |-> [username |-> IF l.username = <<>>
                             THEN "Username is required" ELSE "",
                password |-> IF l.password = <<>>
                             THEN "Password is required" ELSE ""]]

\* validateForm: the result and the errors it sets
validateForm(l) ==
  [isValid |-> Trim(l.username) # <<>> /\ l.password # <<>>,
   errors  |-> [username |-> IF Trim(l.username) = <<>>
                             THEN "Username is required" ELSE "",
                password |-> IF l.password = <<>>
                             THEN "Password is required" ELSE ""]]

\* onChangeText of the username field
setUsername(text) ==
  /\ FormOnScreen
  /\ text # login.username
  /\ login' = [login EXCEPT !.username = text,
                            !.errors.username = ""]
  /\ UNCHANGED <<dashVars, detailVars, events>>

\* onChangeText of the password field
setPassword(text) ==
  /\ FormOnScreen
  /\ text # login.password
  /\ login' = [login EXCEPT !.password = text,
                            !.errors.password = ""]
  /\ UNCHANGED <<dashVars, detailVars, events>>

togglePasswordVisibility ==
  /\ FormOnScreen
  /\ login' = [login EXCEPT !.secureTextEntry = ~@]
  /\ UNCHANGED <<dashVars, detailVars, events>>

\* the Login button (disabled while isLoading), up to the await of signIn
handleLogin ==
  /\ FormOnScreen
  /\ ~login.isLoading
  /\ \E form \in {validateForm(login)} :
        login' = IF ~form.isValid
                 THEN [login EXCEPT !.errors = form.errors]
                 ELSE [login EXCEPT
                         !.errors = form.errors,
                         !.isLoading = TRUE,
                         !.pending = Append(@, [username |-> login.username,
                                                password |-> login.password])]
  /\ UNCHANGED <<dashVars, detailVars, events>>

\* signIn settles: the rest of handleLogin, its catch and its finally
SignInSettles(outcome) ==
  /\ login.pending # <<>>
  /\ login' = [login EXCEPT
                 !.pending = Tail(@),
                 !.lastSignIn = outcome,
                 !.route = IF outcome = "user" THEN "dashboard" ELSE @,
                 !.alert = IF outcome = "null" THEN Some("Login Failed")
                           ELSE IF outcome = "throw" THEN Some("Login Error")
                           ELSE @,
                 !.isLoading = FALSE]
  /\ UNCHANGED <<dashVars, detailVars, events>>

\* the OK button of the Alert
DismissAlert ==
  /\ login.alert # None
  /\ login' = [login EXCEPT !.alert = None]
  /\ UNCHANGED <<dashVars, detailVars, events>>

NextLogin ==
  \/ \E text \in Usernames : setUsername(text)
  \/ \E text \in Passwords : setPassword(text)
  \/ togglePasswordVisibility
  \/ handleLogin
  \/ \E outcome \in SignInOutcomes : SignInSettles(outcome)
  \/ DismissAlert

InitDetail ==
  /\ DashboardConstructed
  /\ LoginConstructed
  /\ events = 0
  /\ \E id \in {None} \cup {Some(s) : s \in SystemIds} : DetailConstructed(id)

NextDetail ==
  \/ DetailMount
  \/ \E k \in 1..MaxChecks, user \in UserOutcomes, access \in BOOLEAN :
        CheckAccessComplete(k, user, access)
  \/ \E id \in SystemIds : ParamChange(id)
  \/ \E k \in 1..MaxBatches, rejected \in BatchRejections :
        FetchAllDataComplete(k, rejected)
  \/ \E k \in 1..MaxCharts, outcome \in {"ok", "reject"} :
        ChartFetchComplete(k, outcome)
  \/ DetailRefresh
  \/ \E period \in ChartPeriods : setSelectedChartPeriod(period)

SpecDetail == InitDetail /\ [][NextDetail]_vars

(***************************************************************************)
(* The dashboard on its own.                                               *)
(***************************************************************************)
Init ==
  /\ DashboardConstructed
  /\ LoginConstructed
  /\ events = 0
  /\ DetailConstructed(None)

Next ==
  \/ Mount
  \/ \E k \in 1..MaxPageLoads, outcome \in {"ok", "reject"} : PageListReturn(k, outcome)
  \/ \E k \in 1..MaxPageLoads, rej \in Rejections : PageEnrichComplete(k, rej)
  \/ handleLoadMore
  \/ onRefresh
  \/ Retry
  \/ \E q \in Queries : setSearchQuery(q)
  \/ \E outcome \in {"ok", "empty", "reject"} : DirLoadComplete(outcome)
  \/ \E k \in 1..MaxSearches, rej \in Rejections : SearchComplete(k, rej)

Spec == Init /\ [][Next]_vars

\* the login page on its own
SpecLogin == Init /\ [][NextLogin]_vars

(***************************************************************************)
(* Vocabulary of the properties.                                           *)
(***************************************************************************)
\* this step issued loadPvSystemsPage from handleLoadMore (the only caller
\* that asks for a page above 0)
LoadMoreStarts ==
  /\ Len(pageLoads') = Len(pageLoads) + 1
  /\ pageLoads'[Len(pageLoads')].page > 0

\* this step issued loadPvSystemsPage from onRefresh
RefreshStarts ==
  /\ Len(pageLoads') = Len(pageLoads) + 1
  /\ pageLoads'[Len(pageLoads')].isRefresh

\* this step issued a page fetch
PageFetchStarts == Len(pageLoads') = Len(pageLoads) + 1

\* the list fetch of page load k returned in this step with n < 10 items
ShortPageReturns(k) ==
  /\ k \in 1..Len(pageLoads)
  /\ pageLoads[k].phase = "list"
  /\ \/ /\ Len(pageLoads') = Len(pageLoads)
        /\ pageLoads'[k].phase = "enrich"
        /\ Len(pageLoads'[k].systemsData) < SYSTEMS_PER_PAGE
     \/ /\ pageLoads' = RemoveAt(pageLoads, k)
        /\ Len(getPvSystems(pageLoads[k].page * SYSTEMS_PER_PAGE,
                            SYSTEMS_PER_PAGE)) = 0
        /\ dash'.error = dash.error \/ dash'.error = Some("No PV systems found")

\* the enrichment of page load k settled in this step
PageLoadCompletes(k) ==
  /\ k \in 1..Len(pageLoads)
  /\ pageLoads[k].phase = "enrich"
  /\ pageLoads' = RemoveAt(pageLoads, k)

\* search resolution k settled in this step
SearchCompletes(k) ==
  /\ k \in 1..Len(searches)
  /\ searches' = RemoveAt(searches, k)
  /\ pageLoads' = pageLoads

\* the records the completing page load k put into pvSystems
PageContribution(k) ==
  IF pageLoads[k].page = 0 THEN dash'.pvSystems
  ELSE SubSeq(dash'.pvSystems, Len(dash.pvSystems) + 1, Len(dash'.pvSystems))

IdsOf(systems) == {systems[k].id : k \in 1..Len(systems)}

NoDuplicateIds(systems) ==
  \A a, b \in 1..Len(systems) : systems[a].id = systems[b].id => a = b

\* the record of a failed item, as section 8 of the specification words it
IsOfflineZero(rec) ==
  /\ rec.status = "offline"
  /\ rec.power = "0 kW"
  /\ rec.daily = "0 kWh"
  /\ ~rec.isActive

\* the live-flow answer of system i reports connectivity
FlowReportsOnline(i) ==
  /\ FlowOf(i) # None
  /\ Val(FlowOf(i)).status # None
  /\ Val(Val(FlowOf(i)).status).isOnline

\* a record shown for the query q contains it, case-insensitively
ContainsQuery(rec, q) == MatchesQuery(rec, ToLowerCase(Trim(q)))

(***************************************************************************)
(* C1. handleLoadMore starts a page fetch only when no page load is in      *)
(* flight, hasMorePages is true and the trimmed query is empty.            *)
(***************************************************************************)
C1_LoadMoreOnlyWhenIdle ==
  [][LoadMoreStarts =>
       /\ pageLoads = <<>>
       /\ dash.hasMorePages
       /\ Trim(dash.searchQuery) = <<>>]_vars

\* calls still in flight after the step that were not in flight before it
BatchCompletes ==
  \E k \in 1..Len(batches), rejected \in BatchRejections :
     FetchAllDataComplete(k, rejected)

ChartCompletes ==
  \E k \in 1..Len(charts), outcome \in {"ok", "reject"} :
     ChartFetchComplete(k, outcome)

IssuedFetchIds ==
  LET keptBatches == Len(batches) - (IF BatchCompletes THEN 1 ELSE 0)
      keptCharts  == Len(charts) - (IF ChartCompletes THEN 1 ELSE 0)
  IN {batches'[j].pvSystemId : j \in (keptBatches + 1)..Len(batches')}
       \cup {charts'[j].pvSystemId : j \in (keptCharts + 1)..Len(charts')}

\* an access check settles without granting access
CheckRefuses ==
  \E k \in 1..Len(checks), user \in UserOutcomes, access \in BOOLEAN :
     /\ CheckAccessComplete(k, user, access)
     /\ ~(user = "user" /\ access)

(***************************************************************************)
(* C2. A step issues a fetchAllData batch or a fetchHistoricalData call for *)
(* a system id only if the last finished access check of that id granted   *)
(* access; a check that refuses issues no fetch and leaves the             *)
(* access-denied view with loading false.                                  *)
(***************************************************************************)
C2_FetchOnlyAfterGrantedCheck ==
  [][/\ \A id \in IssuedFetchIds : accessOf'[id] = "granted"
     /\ CheckRefuses =>
          /\ IssuedFetchIds = {}
          /\ View(detail') = "accessDenied"
          /\ ~detail'.loading]_vars

(***************************************************************************)
(* C3. A page fetch that returns fewer than SYSTEMS_PER_PAGE items sets     *)
(* hasMorePages to false; while it is false and no refresh starts, it      *)
(* stays false and no page fetch is issued.                                *)
(***************************************************************************)
C3_ShortPageEndsPagination ==
  [][/\ (\E k \in 1..Len(pageLoads) : ShortPageReturns(k)) => ~dash'.hasMorePages
     /\ (~dash.hasMorePages /\ ~RefreshStarts) =>
          (~dash'.hasMorePages /\ ~PageFetchStarts)]_vars

(***************************************************************************)
(* C4. When the query becomes empty after trimming the displayed list      *)
(* equals the paginated list, and while the query stays empty the two      *)
(* stay equal.                                                             *)
(***************************************************************************)
C4_ClearedQueryShowsPaginatedList ==
  [][(/\ Trim(dash'.searchQuery) = <<>>
      /\ \/ Trim(dash.searchQuery) # <<>>
         \/ dash.filteredSystems = dash.pvSystems)
       => dash'.filteredSystems = dash'.pvSystems]_vars

(***************************************************************************)
(* C5. While the trimmed query is non-empty the displayed list holds at    *)
(* most 20 records.                                                        *)
(***************************************************************************)
C5_SearchResultsCapped ==
  Trim(dash.searchQuery) # <<>> => Len(dash.filteredSystems) <= SearchCap

(***************************************************************************)
(* C6. While the trimmed query is non-empty and no search resolution is in *)
(* flight, every displayed record contains the query in its name, id or    *)
(* address, ignoring case.                                                 *)
(***************************************************************************)
C6_DisplayedRecordsMatchQuery ==
  (Trim(dash.searchQuery) # <<>> /\ searches = <<>>) =>
     \A k \in 1..Len(dash.filteredSystems) :
        ContainsQuery(dash.filteredSystems[k], dash.searchQuery)

(***************************************************************************)
(* C7. Neither the paginated list nor the displayed list holds two records *)
(* with the same id (the catalogue returns each id on exactly one page).   *)
(***************************************************************************)
C7_IdsAreUnique ==
  NoDuplicateIds(dash.pvSystems) /\ NoDuplicateIds(dash.filteredSystems)

(***************************************************************************)
(* C8. A completed page load contributes exactly one record for every      *)
(* system its page fetch returned, and a completed search resolution       *)
(* leaves exactly one record for every entry of systemsToLoad, in order,   *)
(* whichever item fetches rejected.                                        *)
(***************************************************************************)
C8_NoItemDropped ==
  [][/\ \A k \in 1..Len(pageLoads) :
          PageLoadCompletes(k) =>
            /\ Len(PageContribution(k)) = Len(pageLoads[k].systemsData)
            /\ IdsOf(PageContribution(k)) =
                 {pageLoads[k].systemsData[j].pvSystemId :
                    j \in 1..Len(pageLoads[k].systemsData)}
     /\ \A k \in 1..Len(searches) :
          SearchCompletes(k) =>
            /\ Len(dash'.filteredSystems) = Len(searches[k].systemsToLoad)
            /\ \A j \in 1..Len(searches[k].systemsToLoad) :
                 dash'.filteredSystems[j].id = searches[k].systemsToLoad[j].id]_vars

\* a page whose flow fetches rejected is on screen in full, next to search
\* results that hold a substituted partial record
C8_Witness ==
  /\ Len(dash.pvSystems) >= SYSTEMS_PER_PAGE
  /\ \E k \in 1..Len(dash.pvSystems) :
        /\ IndexOfId(dash.pvSystems[k].id) % 4 = 0
        /\ dash.pvSystems[k].status = "offline"
  /\ Len(dash.filteredSystems) = SearchCap
  /\ \E k \in 1..Len(dash.filteredSystems) :
        dash.filteredSystems[k].lastUpdated = "unknown"

(***************************************************************************)
(* C9. Whatever rejection pattern explains a completed batch, the record   *)
(* of every item one of whose fetches rejected is offline with "0 kW" and  *)
(* "0 kWh" and inactive, in the page loader and in the search engine.      *)
(***************************************************************************)
C9_FailedItemIsOfflineZero ==
  [][/\ \A k \in 1..Len(pageLoads), rej \in Rejections :
          (/\ PageLoadCompletes(k)
           /\ PageContribution(k) =
                SortSystems(EnhancedSystems(pageLoads[k].systemsData, rej)))
          => \A j \in 1..Len(PageContribution(k)) :
                PageFirstReject(rej, IndexOfId(PageContribution(k)[j].id)) # "none"
                  => IsOfflineZero(PageContribution(k)[j])
     /\ \A k \in 1..Len(searches), rej \in Rejections :
          (/\ SearchCompletes(k)
           /\ dash'.filteredSystems =
                EnhancedMatchedSystems(searches[k].systemsToLoad,
                                       searches[k].pvSystems, rej))
          => \A j \in 1..Len(searches[k].systemsToLoad) :
                (/\ FindById(searches[k].pvSystems,
                             searches[k].systemsToLoad[j].id) = None
                 /\ FirstReject(rej, IndexOfId(searches[k].systemsToLoad[j].id))
                      # "none")
                  => IsOfflineZero(dash'.filteredSystems[j])]_vars

(***************************************************************************)
(* C10. A freshly produced record is online exactly when the item's flow   *)
(* fetch fulfilled and reported isOnline; when any of the item's fetches   *)
(* rejected, or the flow is null or not online, it is offline.             *)
(***************************************************************************)
StatusFollowsFlow(rec, r) ==
  LET i == IndexOfId(rec.id)
  IN /\ rec.status = "online" <=> (r # "flow" /\ FlowReportsOnline(i))
     /\ (r # "none" \/ ~FlowReportsOnline(i)) => rec.status = "offline"

C10_OnlineIffFlowOnline ==
  [][/\ \A k \in 1..Len(pageLoads), rej \in Rejections :
          (/\ PageLoadCompletes(k)
           /\ PageContribution(k) =
                SortSystems(EnhancedSystems(pageLoads[k].systemsData, rej)))
          => \A j \in 1..Len(PageContribution(k)) :
                StatusFollowsFlow(PageContribution(k)[j],
                   PageFirstReject(rej, IndexOfId(PageContribution(k)[j].id)))
     /\ \A k \in 1..Len(searches), rej \in Rejections :
          (/\ SearchCompletes(k)
           /\ dash'.filteredSystems =
                EnhancedMatchedSystems(searches[k].systemsToLoad,
                                       searches[k].pvSystems, rej))
          => \A j \in 1..Len(searches[k].systemsToLoad) :
                FindById(searches[k].pvSystems,
                         searches[k].systemsToLoad[j].id) = None
                  => StatusFollowsFlow(dash'.filteredSystems[j],
                       FirstReject(rej, IndexOfId(dash'.filteredSystems[j].id)))]_vars

\* no record is ordered by the sort comparator before one that precedes it
IsSorted(systems) ==
  \A i, j \in 1..Len(systems) :
     i < j => CompareSystems(systems[i], systems[j]) <= 0

(***************************************************************************)
(* C11. The paginated list and the displayed list are sorted: active       *)
(* records before inactive ones, names in alphabetical order among records *)
(* of equal activity.                                                      *)
(***************************************************************************)
C11_ListsSorted ==
  /\ IsSorted(dash.pvSystems)
  /\ IsSorted(dash.filteredSystems)

\* this step belongs to a refresh: onRefresh starts, or the list fetch or the
\* enrichment of the page load it issued settles
RefreshStep ==
  \/ RefreshStarts
  \/ \E k \in 1..Len(pageLoads) :
        /\ pageLoads[k].isRefresh
        /\ \/ pageLoads' = RemoveAt(pageLoads, k)
           \/ /\ Len(pageLoads') = Len(pageLoads)
              /\ pageLoads[k].phase = "list"
              /\ pageLoads'[k].phase = "enrich"

(***************************************************************************)
(* C12. currentPage and hasMorePages change only in steps taken while the  *)
(* trimmed query is empty, and in every step that is not part of a refresh *)
(* currentPage does not decrease and hasMorePages does not return from     *)
(* false to true.                                                          *)
(***************************************************************************)
C12_PaginationOnlyForward ==
  [][/\ (\/ dash'.currentPage # dash.currentPage
         \/ dash'.hasMorePages # dash.hasMorePages)
          => Trim(dash.searchQuery) = <<>>
     /\ ~RefreshStep =>
          /\ dash'.currentPage >= dash.currentPage
          /\ dash.hasMorePages \/ ~dash'.hasMorePages]_vars

\* d2 differs from d1 at most in the displayed list and the isSearching flag
OnlySearchOutputDiffers(d1, d2) ==
  d2 = [d1 EXCEPT !.filteredSystems = d2.filteredSystems,
                  !.isSearching = d2.isSearching]

(***************************************************************************)
(* C13. A step in which a search resolution settles, and a step in which   *)
(* the query is edited and applySearchFilter runs, leave currentPage,      *)
(* hasMorePages and pvSystems as they were; of the dashboard's state only  *)
(* filteredSystems and isSearching (and the edited query) change.          *)
(***************************************************************************)
C13_SearchLeavesPagination ==
  [][/\ (\E k \in 1..Len(searches) : SearchCompletes(k))
          => OnlySearchOutputDiffers(dash, dash')
     /\ dash'.searchQuery # dash.searchQuery
          => OnlySearchOutputDiffers([dash EXCEPT !.searchQuery = dash'.searchQuery],
                                     dash')]_vars

\* a search resolution that fetched systems outside the loaded first page has
\* settled, and pagination still stands at page 0 with more pages to come
C13_Witness ==
  /\ Trim(dash.searchQuery) # <<>>
  /\ searches = <<>> /\ pageLoads = <<>>
  /\ ~dash.isSearching
  /\ Len(dash.pvSystems) = SYSTEMS_PER_PAGE
  /\ dash.currentPage = 0 /\ dash.hasMorePages
  /\ \E k \in 1..Len(dash.filteredSystems) :
        dash.filteredSystems[k].id \notin IdsOf(dash.pvSystems)

\* the directory fetch settles in this step without a system to store
DirectoryFetchFails ==
  \E outcome \in {"empty", "reject"} : DirLoadComplete(outcome)

(***************************************************************************)
(* C14. A directory fetch that rejects or returns nothing changes only     *)
(* isLoadingAllSystems, to false: the directory cache, totalSystems, the   *)
(* error state and the calls in flight stay as they were; and the page     *)
(* load issued at mount, settling after such a failure, ends the loading   *)
(* state and displays exactly the systems of its page.                     *)
(***************************************************************************)
C14_DirectoryFailureIsContained ==
  [][/\ DirectoryFetchFails =>
          /\ dash' = [dash EXCEPT !.isLoadingAllSystems = FALSE]
          /\ pageLoads' = pageLoads
          /\ searches' = searches
     /\ \A k \in 1..Len(pageLoads) :
          (/\ PageLoadCompletes(k)
           /\ pageLoads[k].page = 0 /\ ~pageLoads[k].isRefresh
           /\ dirLoads = 0 /\ dash.allSystemsBasicInfo = <<>>)
          => /\ ~dash'.loading
             /\ dash'.filteredSystems = dash'.pvSystems
             /\ IdsOf(dash'.pvSystems) =
                  {pageLoads[k].systemsData[j].pvSystemId :
                     j \in 1..Len(pageLoads[k].systemsData)}]_vars

\* the directory load failed and the first page is on screen
C14_Witness ==
  /\ mounted /\ dirLoads = 0 /\ pageLoads = <<>>
  /\ dash.allSystemsBasicInfo = <<>> /\ dash.totalSystems = 0
  /\ ~dash.isLoadingAllSystems
  /\ ~dash.loading /\ dash.error = None
  /\ Len(dash.filteredSystems) = SYSTEMS_PER_PAGE
  /\ dash.currentPage = 0

(***************************************************************************)
(* C15. A refresh reloads the directory: the step in which onRefresh       *)
(* starts issues a directory fetch (whose success then replaces the        *)
(* directory cache).                                                       *)
(***************************************************************************)
C15_RefreshReloadsDirectory ==
  [][RefreshStarts => dirLoads' = dirLoads + 1]_vars

\* a fetchAllData batch settles in this step with its details fetch rejected
DetailsFetchRejects ==
  \E k \in 1..Len(batches) :
     /\ batches' = RemoveAt(batches, k)
     /\ \E rejected \in BatchRejections :
          "details" \in rejected /\ FetchAllDataComplete(k, rejected)

\* a fetchAllData batch settles in this step with its details fetch fulfilled
DetailsFetchFulfils ==
  \E k \in 1..Len(batches) :
     /\ batches' = RemoveAt(batches, k)
     /\ \E rejected \in BatchRejections :
          "details" \notin rejected /\ FetchAllDataComplete(k, rejected)

\* the Retry button of the error prompt of a system is pressed in this step
RetryAfterError ==
  /\ View(detail) = "error"
  /\ detail.pvSystemId # None
  /\ DetailRefresh

RowValue(row, channelName) ==
  LET m == {j \in 1..Len(row.channels) : row.channels[j].channelName = channelName}
  IN IF m = {} THEN 0
     ELSE LET v == row.channels[CHOOSE j \in m : \A i \in m : j <= i].value
          IN IF v = None THEN 0 ELSE Val(v)

\* the sum of the named channel over all rows
ChannelSum(rows, channelName) ==
  LET S[n \in 0..Len(rows)] ==
        IF n = 0 THEN 0 ELSE S[n - 1] + RowValue(rows[n], channelName)
  IN S[Len(rows)]

\* the sums of the rows the remote answers with, by system, channel and
\* duration in days
ExpectedTotal ==
  [id \in SystemIds |->
    [channel \in {"EnergyProductionTotal", "SavingsCO2"} |->
      [duration \in {7, 30, 365} |->
        ChannelSum(AggregateRows(id, channel, duration), channel)]]]

\* d carries the answers for system id of every fetch outside rejected
FulfilledApplied(id, rejected, d) ==
  LET Ok(f) == f \notin rejected
      today == AggregateOf(id, "SavingsCO2", 1).data
  IN /\ Ok("details") => d.pvSystemDetails = Some(DetailsOf(id))
     /\ Ok("flow") => d.flowData = DetailFlowOf(id)
     /\ Ok("aggrToday") =>
          d.aggregatedDataToday = Some(AggregateOf(id, "EnergyProductionTotal", 1))
     /\ Ok("aggrWeek") =>
          d.weeklyEnergyProduction = Some(ExpectedTotal[id]["EnergyProductionTotal"][7])
     /\ Ok("aggrMonth") =>
          d.monthlyEnergyProduction = Some(ExpectedTotal[id]["EnergyProductionTotal"][30])
     /\ Ok("aggrYear") =>
          d.yearlyEnergyProduction = Some(ExpectedTotal[id]["EnergyProductionTotal"][365])
     /\ Ok("aggrTotal") => d.aggregatedDataTotal = Some(TotalOf(id))
     /\ Ok("weather") => d.weatherData = Some(WeatherOf(id))
     /\ Ok("msgs") => d.messages = MessagesOf(id)
     /\ Ok("devs") =>
          d.devices = (IF DevicesOf(id) = None THEN <<>> ELSE Val(DevicesOf(id)))
     /\ Ok("aggrCo2Today") =>
          d.dailyCo2Savings =
            (IF today = <<>> THEN None
             ELSE findChannelValue(today[1].channels, "SavingsCO2"))
     /\ Ok("aggrCo2Week") =>
          d.weeklyCo2Savings = Some(ExpectedTotal[id]["SavingsCO2"][7])
     /\ Ok("aggrCo2Month") =>
          d.monthlyCo2Savings = Some(ExpectedTotal[id]["SavingsCO2"][30])
     /\ Ok("aggrCo2Year") =>
          d.yearlyCo2Savings = Some(ExpectedTotal[id]["SavingsCO2"][365])

C17_PartialFailureTolerated ==
  [][\A k \in 1..Len(batches) :
       batches' = RemoveAt(batches, k) =>
         \A rejected \in BatchRejections :
            ("details" \notin rejected /\ FetchAllDataComplete(k, rejected)) =>
               /\ detail'.error = detail.error
               /\ FulfilledApplied(batches[k].pvSystemId, rejected, detail')]_vars

\* system A's batch has completed with its flow fetch rejected and the weekly
\* aggregate fulfilled: no error, the dashboard shows, flow is absent
C17_Witness ==
  /\ View(detail) = "dashboard"
  /\ detail.error = None
  /\ detail.pvSystemDetails = Some(DetailsOf("A"))
  /\ detail.flowData = None
  /\ detail.weeklyEnergyProduction = Some(6200)
  /\ batches = <<>>

(***************************************************************************)
(* What the detail screen derives from its state for the metric cards.     *)
(***************************************************************************)
\* findChannelValue(flowData?.data?.channels, "PowerPV")
currentPowerOutput(d) ==
  IF d.flowData = None THEN None
  ELSE LET data == Val(d.flowData).data
       IN IF data = None THEN None
          ELSE IF Val(data).channels = None THEN None
          ELSE findChannelValue(Val(Val(data).channels), "PowerPV")

\* findChannelValue(aggregatedDataToday?.data?.[0]?.channels, "EnergyProductionTotal")
dailyEnergyProduction(d) ==
  IF d.aggregatedDataToday = None THEN None
  ELSE LET rows == Val(d.aggregatedDataToday).data
       IN IF rows = <<>> THEN None
          ELSE findChannelValue(rows[1].channels, "EnergyProductionTotal")

\* (num / den).toFixed(digits) of a non-negative quotient, as the count of
\* units of the last digit shown (15 is "1.5" with one digit)
toFixed(num, den, digits) ==
  LET scale == IF digits = 1 THEN 10 ELSE 100
  IN (2 * num * scale + den) \div (2 * den)

NotAvailable == [text |-> "N/A", amount |-> 0]

Formatted(amount, unit) == [text |-> unit, amount |-> amount]

\* value !== null ? `${(value / den).toFixed(1)} unit` : "N/A"
Metric(value, den, unit) ==
  IF value = None THEN NotAvailable
  ELSE Formatted(toFixed(Val(value), den, 1), unit)

\* "N/A" for null, else the dollars of energyWh at 0.40 per kWh with two digits
calculateEarnings(energyWh) ==
  IF energyWh = None THEN NotAvailable
  ELSE Formatted(toFixed(Val(energyWh) * 4, 10000, 2), "$")

\* the metrics of the four swipeable cards
dashboardData(d) ==
  [today |->
     [power    |-> Metric(currentPowerOutput(d), 1000, "kW"),
      energy   |-> Metric(dailyEnergyProduction(d), 1000, "kWh"),
      co2      |-> Metric(d.dailyCo2Savings, 1, "kg"),
      earnings |-> calculateEarnings(dailyEnergyProduction(d))],
   week |->
     [power    |-> Metric(currentPowerOutput(d), 1000, "kW"),
      energy   |-> Metric(d.weeklyEnergyProduction, 1000, "kWh"),
      co2      |-> Metric(d.weeklyCo2Savings, 1, "kg"),
      earnings |-> calculateEarnings(d.weeklyEnergyProduction)],
   month |->
     [energy   |-> Metric(d.monthlyEnergyProduction, 1000, "kWh"),
      average  |-> Metric(d.monthlyEnergyProduction, 30000, "kWh"),
      co2      |-> Metric(d.monthlyCo2Savings, 1, "kg"),
      earnings |-> calculateEarnings(d.monthlyEnergyProduction)],
   year |->
     [energy   |-> Metric(d.yearlyEnergyProduction, 1000, "kWh"),
      average  |-> Metric(d.yearlyEnergyProduction, 12000, "kWh"),
      co2      |-> Metric(d.yearlyCo2Savings, 1, "kg"),
      earnings |-> calculateEarnings(d.yearlyEnergyProduction)]]

\* the state of the metric of fetch f is null or empty in d, and the cards
\* that show it say N/A
Unavailable(f, d) ==
  LET cards == dashboardData(d)
  IN CASE f = "flow" ->
            /\ d.flowData = None
            /\ cards.today.power = NotAvailable
            /\ cards.week.power = NotAvailable
       [] f = "aggrToday" ->
            /\ d.aggregatedDataToday = None
            /\ cards.today.energy = NotAvailable
            /\ cards.today.earnings = NotAvailable
       [] f = "aggrWeek" ->
            /\ d.weeklyEnergyProduction = None
            /\ cards.week.energy = NotAvailable
            /\ cards.week.earnings = NotAvailable
       [] f = "aggrMonth" ->
            /\ d.monthlyEnergyProduction = None
            /\ cards.month.energy = NotAvailable
            /\ cards.month.average = NotAvailable
            /\ cards.month.earnings = NotAvailable
       [] f = "aggrYear" ->
            /\ d.yearlyEnergyProduction = None
            /\ cards.year.energy = NotAvailable
            /\ cards.year.average = NotAvailable
            /\ cards.year.earnings = NotAvailable
       [] f = "aggrCo2Today" ->
            d.dailyCo2Savings = None /\ cards.today.co2 = NotAvailable
       [] f = "aggrCo2Week" ->
            d.weeklyCo2Savings = None /\ cards.week.co2 = NotAvailable
       [] f = "aggrCo2Month" ->
            d.monthlyCo2Savings = None /\ cards.month.co2 = NotAvailable
       [] f = "aggrCo2Year" ->
            d.yearlyCo2Savings = None /\ cards.year.co2 = NotAvailable
       [] f = "aggrTotal" -> d.aggregatedDataTotal = None
       [] f = "weather" -> d.weatherData = None
       [] f = "msgs" -> d.messages = <<>>
       [] f = "devs" -> d.devices = <<>>

(***************************************************************************)
(* C18. After a fetchAllData batch completes with its details fulfilled    *)
(* and some other fetch rejected, the metric of every rejected fetch is    *)
(* unavailable (null or empty state, N/A on the cards), whatever an        *)
(* earlier batch had stored for it, and the metric of every fulfilled      *)
(* fetch carries the value of the new batch.                               *)
(***************************************************************************)
C18_RejectedMetricUnavailable ==
  [][\A k \in 1..Len(batches) :
       batches' = RemoveAt(batches, k) =>
         \A rejected \in BatchRejections :
            ("details" \notin rejected /\ FetchAllDataComplete(k, rejected)) =>
               /\ \A f \in rejected : Unavailable(f, detail')
               /\ FulfilledApplied(batches[k].pvSystemId, rejected, detail')]_vars

(***************************************************************************)
(* C19. Each weekly, monthly and yearly total of energy and of CO2 that a  *)
(* batch stores equals the sum, over all rows of the corresponding         *)
(* aggregate answer, of the value of the requested channel, where a row    *)
(* without the channel or with a null value counts as zero.  The seven     *)
(* rows 1000, 1200, 900, null, 1100, 950, 1050 of system A's week give     *)
(* 6200 and the zero rows of system B's month give 0.                      *)
(***************************************************************************)
\* the fetch, the state field and the request of every period total
PeriodTotalFields ==
  {<<"aggrWeek", "weeklyEnergyProduction", "EnergyProductionTotal", 7>>,
   <<"aggrMonth", "monthlyEnergyProduction", "EnergyProductionTotal", 30>>,
   <<"aggrYear", "yearlyEnergyProduction", "EnergyProductionTotal", 365>>,
   <<"aggrCo2Week", "weeklyCo2Savings", "SavingsCO2", 7>>,
   <<"aggrCo2Month", "monthlyCo2Savings", "SavingsCO2", 30>>,
   <<"aggrCo2Year", "yearlyCo2Savings", "SavingsCO2", 365>>}

TotalsAreSums(id, rejected, d) ==
  /\ \A t \in PeriodTotalFields :
       t[1] \notin rejected => d[t[2]] = Some(ExpectedTotal[id][t[3]][t[4]])
  /\ (id = "A" /\ "aggrWeek" \notin rejected) =>
       /\ Len(AggregateRows("A", "EnergyProductionTotal", 7)) = 7
       /\ d.weeklyEnergyProduction = Some(6200)
  /\ (id = "B" /\ "aggrMonth" \notin rejected) =>
       /\ AggregateRows("B", "EnergyProductionTotal", 30) = <<>>
       /\ d.monthlyEnergyProduction = Some(0)

C19_TotalsAreChannelSums ==
  [][\A k \in 1..Len(batches) :
       batches' = RemoveAt(batches, k) =>
         \A rejected \in BatchRejections :
            ("details" \notin rejected /\ FetchAllDataComplete(k, rejected)) =>
               TotalsAreSums(batches[k].pvSystemId, rejected, detail')]_vars

\* system B's batch has stored its totals: a week with a row that lacks the
\* channel, a month without rows, a year with a row without channels
C19_Witness ==
  /\ detail.pvSystemDetails = Some(DetailsOf("B"))
  /\ detail.weeklyEnergyProduction = Some(40)
  /\ detail.monthlyEnergyProduction = Some(0)
  /\ detail.yearlyCo2Savings = Some(0)
  /\ batches = <<>>

(***************************************************************************)
(* Either screen in use, with every remote call settling eventually.       *)
(***************************************************************************)
\* the dashboard has not been opened in this run
DashboardUnused ==
  /\ dash = DashInit
  /\ pageLoads = <<>>
  /\ dirLoads = 0
  /\ searches = <<>>

\* the detail screen has not been opened in this run
DetailUnused == DetailConstructed(None)

\* a run uses one of the two screens
NextScreens ==
  \/ DetailUnused /\ Next
  \/ DashboardUnused /\ NextDetail

\* every fetch in flight fulfils or rejects eventually: the continuation of
\* each pending await is run by the event loop once its promise has settled
\* (each action is preceded by the part of its effect that identifies it)
FetchesSettle ==
  /\ WF_vars(\E k \in 1..MaxPageLoads, outcome \in {"ok", "reject"} :
                PageListReturn(k, outcome))
  /\ WF_vars(\E k \in 1..MaxPageLoads :
                /\ k <= Len(pageLoads)
                /\ pageLoads' = RemoveAt(pageLoads, k)
                /\ \E rej \in Rejections : PageEnrichComplete(k, rej))
  /\ WF_vars(/\ dirLoads' = dirLoads - 1
             /\ \E outcome \in {"ok", "empty", "reject"} : DirLoadComplete(outcome))
  /\ WF_vars(\E k \in 1..MaxSearches :
                /\ k <= Len(searches)
                /\ searches' = RemoveAt(searches, k)
                /\ \E rej \in Rejections : SearchComplete(k, rej))
  /\ WF_vars(\E k \in 1..MaxChecks :
                /\ k <= Len(checks)
                /\ checks' = RemoveAt(checks, k)
                /\ \E user \in UserOutcomes, access \in BOOLEAN :
                      CheckAccessComplete(k, user, access))
  /\ WF_vars(\E k \in 1..MaxBatches :
                /\ k <= Len(batches)
                /\ batches' = RemoveAt(batches, k)
                /\ \E rejected \in BatchRejections :
                      FetchAllDataComplete(k, rejected))
  /\ WF_vars(\E k \in 1..MaxCharts :
                /\ k <= Len(charts)
                /\ charts' = RemoveAt(charts, k)
                /\ \E outcome \in {"ok", "reject"} : ChartFetchComplete(k, outcome))

FairSpec == InitDetail /\ [][NextScreens]_vars /\ FetchesSettle

(***************************************************************************)
(* C20. If every remote fetch eventually fulfils or rejects, every started *)
(* operation finishes: from some point on nothing is in flight and every   *)
(* loading flag of the screen in use is false.  A step in which the last   *)
(* operation of a kind in flight finishes leaves the flag of that kind     *)
(* false, whatever the fetches answered, and a flag is raised only by a    *)
(* step that starts an operation of its kind.                              *)
(***************************************************************************)
\* page loads in flight of one kind
FirstPageLoads(p) ==
  Cardinality({k \in 1..Len(p) : p[k].page = 0 /\ ~p[k].isRefresh})

LoadMores(p) == Cardinality({k \in 1..Len(p) : p[k].page > 0})

Refreshes(p) == Cardinality({k \in 1..Len(p) : p[k].isRefresh})

\* the last of before operations in flight finishes in this step
LastFinishes(before, after) == after < before /\ after = 0

\* the flag goes up in this step
Raised(flag, flagAfter) == flagAfter /\ ~flag

NothingInFlight ==
  /\ pageLoads = <<>> /\ dirLoads = 0 /\ searches = <<>>
  /\ checks = <<>> /\ batches = <<>> /\ charts = <<>>

DashboardFlagsClear ==
  /\ ~dash.loading /\ ~dash.isLoadingMore /\ ~dash.refreshing
  /\ ~dash.isSearching /\ ~dash.isLoadingAllSystems

DetailFlagsClear ==
  ~detail.loading /\ ~detail.refreshing /\ ~detail.chartLoading

\* nothing is pending on the screen in use; a detail screen that redirected
\* to the login screen is gone
AtRest ==
  \/ ~mounted
  \/ detail.unmounted
  \/ /\ NothingInFlight
     /\ DetailUnused => DashboardFlagsClear
     /\ DashboardUnused => DetailFlagsClear

FlagsFollowOperations ==
  /\ LastFinishes(FirstPageLoads(pageLoads), FirstPageLoads(pageLoads')) =>
       ~dash'.loading
  /\ LastFinishes(LoadMores(pageLoads), LoadMores(pageLoads')) =>
       ~dash'.isLoadingMore
  /\ LastFinishes(Refreshes(pageLoads), Refreshes(pageLoads')) =>
       ~dash'.refreshing
  /\ LastFinishes(Len(searches), Len(searches')) => ~dash'.isSearching
  /\ LastFinishes(dirLoads, dirLoads') => ~dash'.isLoadingAllSystems
  /\ LastFinishes(Len(batches), Len(batches')) =>
       ~detail'.loading /\ ~detail'.refreshing
  /\ LastFinishes(Len(charts), Len(charts')) => ~detail'.chartLoading
  /\ Raised(dash.loading, dash'.loading) =>
       FirstPageLoads(pageLoads') > FirstPageLoads(pageLoads)
  /\ Raised(dash.isLoadingMore, dash'.isLoadingMore) =>
       LoadMores(pageLoads') > LoadMores(pageLoads)
  /\ Raised(dash.refreshing, dash'.refreshing) =>
       Refreshes(pageLoads') > Refreshes(pageLoads)
  /\ Raised(dash.isSearching, dash'.isSearching) => Len(searches') > Len(searches)
  /\ Raised(dash.isLoadingAllSystems, dash'.isLoadingAllSystems) =>
       dirLoads' > dirLoads
  /\ Raised(detail.loading, detail'.loading) => Len(batches') > Len(batches)
  /\ Raised(detail.refreshing, detail'.refreshing) => Len(batches') > Len(batches)
  /\ Raised(detail.chartLoading, detail'.chartLoading) => Len(charts') > Len(charts)

C20_OperationsFinishAndFlagsClear ==
  /\ <>[]AtRest
  /\ [][FlagsFollowOperations]_vars

\* the dashboard came to rest after a refresh whose list fetch rejected
C20_Witness ==
  /\ mounted /\ DetailUnused
  /\ NothingInFlight /\ DashboardFlagsClear
  /\ dash.error = Some("Failed to load PV systems. Please try again.")
  /\ dash.pvSystems # <<>>
  /\ events > 0

(***************************************************************************)
(* C21. A query change cancels no search resolution in flight, and         *)
(* resolutions are applied in completion order without a check against     *)
(* the current query: the step in which a resolution                       *)
(* completes displays one record per entry that resolution matched, in     *)
(* its order, whatever the query is by then.  So a resolution of an older  *)
(* query that completes last leaves its results displayed under the newer  *)
(* query with no search in flight.                                         *)
(***************************************************************************)
\* the ids of a list, in list order
IdSeq(systems) == [k \in 1..Len(systems) |-> systems[k].id]

\* what a resolution of the query q against the loaded directory displays
ResultIds(q) ==
  IdSeq(SystemsToLoad(FilterByQuery(dash.allSystemsBasicInfo, q)))

C21_StaleResolutionOverwrites ==
  [][/\ dash'.searchQuery # dash.searchQuery =>
          /\ Len(searches') >= Len(searches)
          /\ SubSeq(searches', 1, Len(searches)) = searches
     /\ \A k \in 1..Len(searches) :
          SearchCompletes(k) =>
            IdSeq(dash'.filteredSystems) = IdSeq(searches[k].systemsToLoad)]_vars

\* nothing is in flight and the list displayed is the result of a query
\* other than the current one
C21_Witness ==
  /\ searches = <<>> /\ pageLoads = <<>> /\ dirLoads = 0
  /\ dash.allSystemsBasicInfo # <<>>
  /\ Trim(dash.searchQuery) # <<>>
  /\ IdSeq(dash.filteredSystems) # ResultIds(dash.searchQuery)
  /\ \E q \in Queries :
        /\ Trim(q) # <<>> /\ q # dash.searchQuery
        /\ ResultIds(q) # <<>>
        /\ IdSeq(dash.filteredSystems) = ResultIds(q)

(***************************************************************************)
(* C22. With the directory populated and a query that is non-empty after   *)
(* trimming, a search resolution that completes while no other one is in   *)
(* flight displays exactly one record for each of the first 20 directory   *)
(* entries, in directory order, whose name, id or formatted address        *)
(* contains the query without regard to case; a query that matches no      *)
(* entry displays the empty list and starts no fetch.                      *)
(***************************************************************************)
\* the catalogue positions whose name, id or address contains q
EntriesContaining(q) ==
  {i \in 1..RemoteCount :
     \E field \in {NameOf(i), IdOf(i), formatAddress(Metadata(i).address)} :
        Includes(ToLowerCase(field), ToLowerCase(q))}

\* the ids of the first 20 of them, in catalogue order
ExpectedResults ==
  [q \in Queries |->
     LET hits == EntriesContaining(q)
         n == IF Cardinality(hits) < 20 THEN Cardinality(hits) ELSE 20
     IN [k \in 1..n |->
           IdOf(CHOOSE i \in hits : Cardinality({j \in hits : j < i}) = k - 1)]]

\* this step ran the search effect with a populated directory and a query
\* that is non-empty after trimming
SearchEffectRuns ==
  /\ \/ dash'.searchQuery # dash.searchQuery
     \/ dash'.allSystemsBasicInfo # dash.allSystemsBasicInfo
  /\ dash'.allSystemsBasicInfo # <<>>
  /\ Trim(dash'.searchQuery) # <<>>

C22_ResolutionDisplaysFirstTwentyMatches ==
  [][/\ \A k \in 1..Len(searches) :
          (SearchCompletes(k) /\ Len(searches) = 1) =>
             /\ IdSeq(dash'.filteredSystems) = ExpectedResults[searches[k].query]
             /\ \A j \in 1..Len(dash'.filteredSystems) :
                   MatchesQuery(dash'.filteredSystems[j],
                                ToLowerCase(searches[k].query))
     /\ SearchEffectRuns =>
          /\ ExpectedResults[dash'.searchQuery] = <<>> =>
               (dash'.filteredSystems = <<>> /\ searches' = searches)
          /\ (searches = <<>> /\ searches' = <<>>) =>
               IdSeq(dash'.filteredSystems) = ExpectedResults[dash'.searchQuery]]_vars

\* the resolution of "Ba" left the seven systems named Bay.. on screen, the
\* one beyond the paginated list fetched
C22_Witness ==
  /\ dash.searchQuery = <<"B", "a">>
  /\ searches = <<>> /\ ~dash.isSearching
  /\ Len(dash.filteredSystems) = Cardinality(EntriesContaining(<<"B", "a">>))
  /\ IdSeq(dash.filteredSystems) = ExpectedResults[<<"B", "a">>]
  /\ \E k \in 1..Len(dash.filteredSystems) :
        FindById(dash.pvSystems, dash.filteredSystems[k].id) = None

(***************************************************************************)
(* C23. In a search resolution an entry whose id is in the paginated list  *)
(* (the list of the render that started the resolution) issues no fetch    *)
(* and is displayed as that list's record, unchanged; every other entry    *)
(* issues the flow, details and today-aggregate fetches for its id.        *)
(***************************************************************************)
\* search resolution k completes in this step and rej explains its result
ResolutionSettles(k, rej) ==
  /\ SearchCompletes(k)
  /\ dash'.filteredSystems =
       EnhancedMatchedSystems(searches[k].systemsToLoad, searches[k].pvSystems, rej)

\* entry j of resolution k is displayed as the paginated list's own record
ReusedUnchanged(k, j, rej) ==
  /\ ItemFetches(searches[k].systemsToLoad[j], searches[k].pvSystems, rej) = <<>>
  /\ \E n \in 1..Len(searches[k].pvSystems) :
        dash'.filteredSystems[j] = searches[k].pvSystems[n]

InPaginatedList(k, j) ==
  FindById(searches[k].pvSystems, searches[k].systemsToLoad[j].id) # None

RecordsContaining(systems, q) ==
  LET Contains(rec) ==
        \E field \in {rec.name, rec.id, rec.address} :
           Includes(ToLowerCase(field), ToLowerCase(q))
  IN SelectSeq(systems, Contains)

C24_FallbackFilterStaysApplied ==
  [][/\ (/\ dash'.searchQuery # dash.searchQuery
         /\ dash.allSystemsBasicInfo = <<>>
         /\ dash.pvSystems # <<>>)
        => /\ searches' = searches /\ pageLoads' = pageLoads /\ dirLoads' = dirLoads
           /\ dash'.filteredSystems =
                RecordsContaining(dash.pvSystems, dash'.searchQuery)
     /\ \A k \in 1..Len(pageLoads) :
          (/\ PageLoadCompletes(k)
           /\ dash.allSystemsBasicInfo = <<>>
           /\ dash.pvSystems # <<>>
           /\ Trim(dash.searchQuery) # <<>>)
          => dash'.filteredSystems =
               RecordsContaining(dash'.pvSystems, dash'.searchQuery)]_vars

(***************************************************************************)
(* C25. Once no page load is in flight (and none has failed) the paginated *)
(* list is the concatenation of the sorted pages 0 to currentPage: each    *)
(* page once, in page order, none missing; after a short last page         *)
(* hasMorePages is false.                                                  *)
(***************************************************************************)
\* the ids the remote returns for page p
PageIds(p) ==
  {getPvSystems(p * SYSTEMS_PER_PAGE, SYSTEMS_PER_PAGE)[j].pvSystemId :
     j \in 1..Len(getPvSystems(p * SYSTEMS_PER_PAGE, SYSTEMS_PER_PAGE))}

\* the part of the paginated list where page p belongs
PageSegment(p) ==
  SubSeq(dash.pvSystems, p * SYSTEMS_PER_PAGE + 1,
         p * SYSTEMS_PER_PAGE + Cardinality(PageIds(p)))

C25_ListIsConcatenationOfPages ==
  (mounted /\ pageLoads = <<>> /\ dash.error = None) =>
     /\ Len(dash.pvSystems) =
          dash.currentPage * SYSTEMS_PER_PAGE + Cardinality(PageIds(dash.currentPage))
     /\ \A p \in 0..dash.currentPage :
          /\ Len(PageSegment(p)) = Cardinality(PageIds(p))
          /\ IdsOf(PageSegment(p)) = PageIds(p)
          /\ IsSorted(PageSegment(p))
     /\ Cardinality(PageIds(dash.currentPage)) < SYSTEMS_PER_PAGE => ~dash.hasMorePages

(***************************************************************************)
(* C26. When the error prompt is up after a failed page load, a retry or   *)
(* refresh whose page-0 load succeeds leaves the error state: error is     *)
(* cleared and the loaded list is on screen instead of the prompt.         *)
(***************************************************************************)
\* which of the three branches of the screen's body is rendered
DashboardBody(d) ==
  IF d.loading THEN "spinner" ELSE IF d.error # None THEN "errorPrompt" ELSE "list"

C26_SuccessfulRetryClearsError ==
  [][\A k \in 1..Len(pageLoads) :
       (/\ PageLoadCompletes(k)
        /\ pageLoads[k].isRefresh
        /\ dash.error # None)
       => /\ dash'.error = None
          /\ dash'.pvSystems # <<>>
          /\ DashboardBody(dash') = "list"]_vars

(***************************************************************************)
(* C27. On the detail screen, whenever no chart fetch is in flight the     *)
(* series held in energyHistData is the result of the fetch for the        *)
(* selected chart period, or null when that fetch failed or returned no    *)
(* rows, also when the period was switched or a refresh started while an   *)
(* earlier chart fetch was in flight.                                      *)
(***************************************************************************)
C27_ChartSeriesIsOfSelectedPeriod ==
  (mounted /\ ~detail.unmounted /\ charts = <<>>) =>
     \/ detail.energyHistData = None
     \/ \E id \in SystemIds :
           detail.energyHistData = ChartSeries(id, detail.selectedChartPeriod)

(***************************************************************************)
(* C28. A chart fetch that stores a series stores, for period day, the     *)
(* answer of the historical-series fetch as it is, and for week, month     *)
(* and year the answer of the aggregate fetch over 7, 30 and 365 days      *)
(* reshaped: one point per row, in row order, with the row's channels,     *)
(* logDuration 86400, and the row's logDateTime, kept when it has a time   *)
(* part and otherwise followed by T00:00:00Z.                              *)
(***************************************************************************)
\* the aggregate rows the remote holds for a chart period
PeriodRows(id, period) ==
  AggregateRows(id, "EnergyProductionTotal",
                [week |-> 7, month |-> 30, year |-> 365][period])

HasTimePart(logDateTime) ==
  \E n \in 1..Len(logDateTime) : logDateTime[n] = "T"

\* point n of the series is row n reshaped
PointOfRow(point, row) ==
  /\ point.logDuration = 86400
  /\ point.channels = row.channels
  /\ IF HasTimePart(row.logDateTime)
     THEN point.logDateTime = row.logDateTime
     ELSE point.logDateTime = row.logDateTime \o <<"T", "00:00:00Z">>

\* the series is what the fetch of this period for this system returns
SeriesOfPeriod(series, id, period) ==
  IF period = "day" THEN series = HistoricalOf(id)
  ELSE /\ series.pvSystemId = id
       /\ Len(series.data) = Len(PeriodRows(id, period))
       /\ \A n \in 1..Len(series.data) :
             PointOfRow(series.data[n], PeriodRows(id, period)[n])

C28_SeriesReshapedFromPeriodFetch ==
  [][\A k \in 1..Len(charts) :
       (/\ charts' = RemoveAt(charts, k)
        /\ detail'.energyHistData # None)
       => SeriesOfPeriod(Val(detail'.energyHistData),
                         charts[k].pvSystemId, charts[k].period)]_vars

\* the week series of B is held: its first row had a bare date, its second
\* a time part
C28_Witness ==
  /\ charts = <<>>
  /\ detail.energyHistData # None
  /\ Val(detail.energyHistData).pvSystemId = "B"
  /\ Len(Val(detail.energyHistData).data) = 2
  /\ Val(detail.energyHistData).data[1].logDateTime = <<"d6", "T", "00:00:00Z">>
  /\ Val(detail.energyHistData).data[2].logDateTime = <<"d7", "T", "12:00:00Z">>
  /\ Val(detail.energyHistData).data[1].logDuration = 86400

(***************************************************************************)
(* C29. Every record of the dashboard's paginated list and of its search   *)
(* results has status online or offline, never warning, and is active      *)
(* exactly when its status is online.                                      *)
(***************************************************************************)
OnlineOrOffline(rec) ==
  /\ rec.status \in {"online", "offline"}
  /\ rec.isActive <=> rec.status = "online"

C29_DashboardStatusIsOnlineOrOffline ==
  /\ \A k \in 1..Len(dash.pvSystems) : OnlineOrOffline(dash.pvSystems[k])
  /\ \A k \in 1..Len(dash.filteredSystems) : OnlineOrOffline(dash.filteredSystems[k])

\* search results on screen with an online record, a record whose flow
\* says not online and a record substituted after a rejected fetch, next to
\* a paginated list with online and offline records
C29_Witness ==
  /\ \E a, b \in 1..Len(dash.pvSystems) :
        dash.pvSystems[a].status = "online" /\ dash.pvSystems[b].status = "offline"
  /\ \E a, b, c \in 1..Len(dash.filteredSystems) :
        /\ dash.filteredSystems[a].status = "online"
        /\ dash.filteredSystems[b].status = "offline"
        /\ dash.filteredSystems[b].lastUpdated # "unknown"
        /\ IndexOfId(dash.filteredSystems[b].id) % 4 = 2
        /\ dash.filteredSystems[c].lastUpdated = "unknown"
        /\ dash.filteredSystems[c].status = "offline"

(***************************************************************************)
(* C30. On the login page signIn is invoked only when the username is      *)
(* non-blank after trimming and the password is non-empty; the router      *)
(* goes to the dashboard only in the step in which signIn returned a       *)
(* user; a null result or a thrown error leaves the login page on screen;  *)
(* and isLoading is false once the attempt has finished.                   *)
(***************************************************************************)
\* signIn is called in this step
SignInInvoked == Len(login'.pending) > Len(login.pending)

\* a signIn call settles in this step
AttemptFinishes == Len(login'.pending) < Len(login.pending)

C30_SignInGuardedAndNavigationAfterUser ==
  [][/\ SignInInvoked =>
          /\ Trim(login.username) # <<>>
          /\ login.password # <<>>
          /\ login'.pending[Len(login'.pending)] =
               [username |-> login.username, password |-> login.password]
     /\ login'.route # login.route =>
          /\ AttemptFinishes
          /\ login'.lastSignIn = "user"
          /\ login'.route = "dashboard"
     /\ (AttemptFinishes /\ login'.lastSignIn \in {"null", "throw"}) =>
          /\ login'.route = "login"
          /\ login'.alert # None
     /\ AttemptFinishes => ~login'.isLoading
     /\ (login'.pending = <<>> /\ login.pending = <<>>) => ~login'.isLoading]_vars

\* the dashboard was reached with a username that has a leading space and a
\* password that is a single space
C30_Witness ==
  /\ login.route = "dashboard"
  /\ login.lastSignIn = "user"
  /\ login.username = <<" ", "a">>
  /\ login.password = <<" ">>
  /\ ~login.isLoading /\ login.pending = <<>>

====
